---- MODULE Spec2Model ----
(***************************************************************************)
(* ML-DSA (FIPS 204) as implemented by pq_logic/fips/fips204.py: the       *)
(* ML_DSA class, its parameter sets, codecs, samplers, NTT, rounding and   *)
(* hint operations, and the public operations keygen_internal, sign,       *)
(* verify, hash_ml_dsa_sign and hash_ml_dsa_verify.                        *)
(*                                                                         *)
(* Every method of the class is an operator taking the instance fields     *)
(* (self) as its first argument and is written against self.n and self.q,  *)
(* so the same text evaluates on the full-size rows of ML_DSA_PARAM and on *)
(* the reduced rows the state machine runs with.  The reduced rows keep    *)
(* q, d, lam, gam1, gam2 and eta of the source and shrink the ring to      *)
(* RingN coefficients and the matrix to ReducedK x ReducedEll polynomials, *)
(* with tau, beta = tau * eta and omega shrunk to match (ReducedTau,       *)
(* ReducedOmega).  Where the source writes the literal                     *)
(* 256 for the number of coefficients the module writes self.n, where it   *)
(* writes 32 for 256 / 8 packed bytes per bit of width it writes           *)
(* self.n \div 8, and 8347681 = 256^-1 mod q becomes the inverse of self.n.*)
(*                                                                         *)
(* Python lists and byte strings are 0-based; sequences here are 1-based,  *)
(* so s[i] of the source is s[i + 1] here.  An exception raised by the     *)
(* source is a value of the model: a call's outcome is a record whose kind *)
(* is "bytes", "keys", "None", "True", "False", "ValueError" or            *)
(* "IndexError".                                                           *)
(***************************************************************************)
EXTENDS Integers, Sequences, FiniteSets, TLC

ML_DSA_Q == 8380417

ML_DSA_N == 256

\* log2 of the number of coefficients of the reduced ring
LogRingN == 3

RingN == 2 ^ LogRingN

ML_DSA_ZETAS == <<
    0, 4808194, 3765607, 3761513, 5178923, 5496691, 5234739, 5178987,
    7778734, 3542485, 2682288, 2129892, 3764867, 7375178, 557458, 7159240,
    5010068, 4317364, 2663378, 6705802, 4855975, 7946292, 676590, 7044481,
    5152541, 1714295, 2453983, 1460718, 7737789, 4795319, 2815639, 2283733,
    3602218, 3182878, 2740543, 4793971, 5269599, 2101410, 3704823, 1159875,
    394148, 928749, 1095468, 4874037, 2071829, 4361428, 3241972, 2156050,
    3415069, 1759347, 7562881, 4805951, 3756790, 6444618, 6663429, 4430364,
    5483103, 3192354, 556856, 3870317, 2917338, 1853806, 3345963, 1858416,
    3073009, 1277625, 5744944, 3852015, 4183372, 5157610, 5258977, 8106357,
    2508980, 2028118, 1937570, 4564692, 2811291, 5396636, 7270901, 4158088,
    1528066, 482649, 1148858, 5418153, 7814814, 169688, 2462444, 5046034,
    4213992, 4892034, 1987814, 5183169, 1736313, 235407, 5130263, 3258457,
    5801164, 1787943, 5989328, 6125690, 3482206, 4197502, 7080401, 6018354,
    7062739, 2461387, 3035980, 621164, 3901472, 7153756, 2925816, 3374250,
    1356448, 5604662, 2683270, 5601629, 4912752, 2312838, 7727142, 7921254,
    348812, 8052569, 1011223, 6026202, 4561790, 6458164, 6143691, 1744507,
    1753, 6444997, 5720892, 6924527, 2660408, 6600190, 8321269, 2772600,
    1182243, 87208, 636927, 4415111, 4423672, 6084020, 5095502, 4663471,
    8352605, 822541, 1009365, 5926272, 6400920, 1596822, 4423473, 4620952,
    6695264, 4969849, 2678278, 4611469, 4829411, 635956, 8129971, 5925040,
    4234153, 6607829, 2192938, 6653329, 2387513, 4768667, 8111961, 5199961,
    3747250, 2296099, 1239911, 4541938, 3195676, 2642980, 1254190, 8368000,
    2998219, 141835, 8291116, 2513018, 7025525, 613238, 7070156, 6161950,
    7921677, 6458423, 4040196, 4908348, 2039144, 6500539, 7561656, 6201452,
    6757063, 2105286, 6006015, 6346610, 586241, 7200804, 527981, 5637006,
    6903432, 1994046, 2491325, 6987258, 507927, 7192532, 7655613, 6545891,
    5346675, 8041997, 2647994, 3009748, 5767564, 4148469, 749577, 4357667,
    3980599, 2569011, 6764887, 1723229, 1665318, 2028038, 1163598, 5011144,
    3994671, 8368538, 7009900, 3020393, 3363542, 214880, 545376, 7609976,
    3105558, 7277073, 508145, 7826699, 860144, 3430436, 140244, 6866265,
    6195333, 3123762, 2358373, 6187330, 5365997, 6663603, 2926054, 7987710,
    8077412, 3531229, 4405932, 4606686, 1900052, 7598542, 1054478, 7648983
>>

\* (d, tau, lam, gam1, gam2, k, ell, eta, beta, omega)
ML_DSA_PARAM ==
    [ s \in {"ml-dsa-44", "ml-dsa-65", "ml-dsa-87"} |->
        CASE s = "ml-dsa-44" ->
               <<13, 39, 128, 2^17, (ML_DSA_Q - 1) \div 88, 4, 4, 2, 78, 80>>
          [] s = "ml-dsa-65" ->
               <<13, 49, 192, 2^19, (ML_DSA_Q - 1) \div 32, 6, 5, 4, 196, 55>>
          [] s = "ml-dsa-87" ->
               <<13, 60, 256, 2^19, (ML_DSA_Q - 1) \div 32, 8, 7, 2, 120, 75>> ]

ParamNames == DOMAIN ML_DSA_PARAM

\* k and ell of the reduced rows
ReducedK == [ s \in ParamNames |->
    CASE s = "ml-dsa-44" -> 2 [] s = "ml-dsa-65" -> 3 [] s = "ml-dsa-87" -> 4 ]

ReducedEll == [ s \in ParamNames |->
    CASE s = "ml-dsa-44" -> 2 [] s = "ml-dsa-65" -> 2 [] s = "ml-dsa-87" -> 3 ]

\* tau and omega of the reduced rows (tau <= RingN; omega in the range of the
\* hint weights a RingN-coefficient signature has)
ReducedTau == [ s \in ParamNames |->
    CASE s = "ml-dsa-44" -> 2 [] s = "ml-dsa-65" -> 3 [] s = "ml-dsa-87" -> 4 ]

ReducedOmega == [ s \in ParamNames |->
    CASE s = "ml-dsa-44" -> 3 [] s = "ml-dsa-65" -> 2 [] s = "ml-dsa-87" -> 3 ]

\* The fields __init__ assigns, from a row of the table.
Fields(name, n, row) ==
    [ name |-> name, q |-> ML_DSA_Q, n |-> n,
      d |-> row[1], tau |-> row[2], lam |-> row[3], gam1 |-> row[4],
      gam2 |-> row[5], k |-> row[6], ell |-> row[7], eta |-> row[8],
      beta |-> row[9], omega |-> row[10] ]

\* ML_DSA(param) at full size
FullSet(param) == Fields(param, ML_DSA_N, ML_DSA_PARAM[param])

\* ML_DSA(param) over the reduced ring
init(param) ==
    Fields(param, RingN,
           <<ML_DSA_PARAM[param][1], ReducedTau[param], ML_DSA_PARAM[param][3],
             ML_DSA_PARAM[param][4], ML_DSA_PARAM[param][5], ReducedK[param],
             ReducedEll[param], ML_DSA_PARAM[param][8],
             ReducedTau[param] * ML_DSA_PARAM[param][8], ReducedOmega[param]>>)

-----------------------------------------------------------------------------
(* Python helpers *)

Min(a, b) == IF a < b THEN a ELSE b

Max(a, b) == IF a < b THEN b ELSE a

Abs(a) == IF a < 0 THEN -a ELSE a

\* s[a:b] of Python for 0 <= a <= b: the slice is cut at the end of s
Slice(s, a, b) == SubSeq(s, Min(a, Len(s)) + 1, Min(b, Len(s)))

\* int.bit_length() for x >= 0
RECURSIVE bit_length(_)
bit_length(x) == IF x = 0 THEN 0 ELSE 1 + bit_length(x \div 2)

\* the sequence f with its elements computed
list(f) == f \o <<>>

\* the statements e that follow "x = v": v is computed, then e
After(v, e) == <<v, e>>[2]

\* bytes([v]) * n
Fill(v, n) == list([ i \in 1..n |-> v ])

\* the value an integer operator returns where the source raises IndexError
IndexError == -1

\* the value a list or bytes operator returns where the source raises
Raised == <<IndexError>>

RECURSIVE Concat(_)
Concat(ss) == IF ss = <<>> THEN <<>> ELSE Head(ss) \o Concat(Tail(ss))

-----------------------------------------------------------------------------
(* 3.7 symmetric primitives.  SHAKE256 (self.h), XOFHash and the           *)
(* _compute_hash / _compute_shake helpers are outside the files modelled:  *)
(* each is a deterministic byte stream keyed by the algorithm and the      *)
(* absorbed bytes; a longer read extends a shorter one.                    *)

XofModulus == 999983

XofMul == 1021

XofInc == 4093

XofFold == 32719

XofMix == 32749

XofTag(alg) ==
    CASE alg = "shake128" -> 11 [] alg = "shake256" -> 23
      [] alg = "sha256" -> 37 [] alg = "sha512" -> 41

\* the weight of the byte at position i of the absorbed input
XofWeight(i) == ((i * i * 31 + i * 17) % 3989) + 1

\* the weighted sum of s[lo..hi], modulo XofModulus
RECURSIVE XofAbsorb(_, _, _)
XofAbsorb(s, lo, hi) ==
    IF lo > hi THEN 0
    ELSE IF lo = hi THEN ((s[lo] + 7) * XofWeight(lo)) % XofModulus
    ELSE (XofAbsorb(s, lo, (lo + hi) \div 2)
          + XofAbsorb(s, (lo + hi) \div 2 + 1, hi)) % XofModulus

\* XOFHash(alg) followed by update(s): the stream and the read position
XOFHash(alg, s) ==
    [ st |-> (XofTag(alg) * XofMix + Len(s) * XofMul + XofAbsorb(s, 1, Len(s)))
             % XofModulus,
      pos |-> 0 ]

\* the byte a mixed word x stands for: a small one half of the time
XofPick(x) ==
    IF (x \div 4096) % 2 = 1 THEN (x \div 16) % 8 ELSE (x \div 16) % 256

\* byte number t of the stream
XofByteAt(st, t) ==
    XofPick((((((st + 3 * t) * XofMul + XofInc) % XofModulus) % XofFold) * XofMix + t)
            % XofModulus)

\* the next byte of x, and x after read(n)
XofByte(x) == XofByteAt(x.st, x.pos)

XofSkip(x, n) == [ st |-> x.st, pos |-> x.pos + n ]

XofStep(x) == XofSkip(x, 1)

XofRead(x, n) == list([ i \in 1..n |-> XofByteAt(x.st, x.pos + i - 1) ])

h(s, length) == XofRead(XOFHash("shake256", s), length)

compute_shake(alg, m, length) == XofRead(XOFHash(alg, m), length)

compute_hash(alg, m) ==
    XofRead(XOFHash(alg, m), IF alg = "sha256" THEN 32 ELSE 64)

-----------------------------------------------------------------------------
(* Algorithms 9 - 13: bits and bytes *)

\* (x >> i) & 1
BitOf(x, i) == (x \div 2^i) % 2

integer_to_bits(x, alpha) == list([ i \in 1..alpha |-> BitOf(x, i - 1) ])

\* x = 2 * x + y[alpha - i] for i = 1..alpha; y[alpha - 1] is read first and
\* raises IndexError when y is shorter than alpha
RECURSIVE BitsFold(_, _, _, _)
BitsFold(y, alpha, i, x) ==
    IF i > alpha THEN x ELSE BitsFold(y, alpha, i + 1, 2 * x + y[alpha - i + 1])

bits_to_integer(y, alpha) ==
    IF Len(y) < alpha THEN IndexError ELSE BitsFold(y, alpha, 1, 0)

integer_to_bytes(x, alpha) == list([ i \in 1..alpha |-> (x \div 256^(i - 1)) % 256 ])

bits_to_bytes(y) ==
    list([ i \in 1..(Len(y) \div 8) |->
        y[8*i - 7] + 2 * y[8*i - 6] + 4 * y[8*i - 5] + 8 * y[8*i - 4]
        + 16 * y[8*i - 3] + 32 * y[8*i - 2] + 64 * y[8*i - 1] + 128 * y[8*i] ])

bytes_to_bits(z) ==
    list([ t \in 1..(8 * Len(z)) |-> (z[(t - 1) \div 8 + 1] \div 2^((t - 1) % 8)) % 2 ])

-----------------------------------------------------------------------------
(* Algorithms 14, 15: coefficients from stream bytes *)

\* the integer standing for None where the source returns a coefficient or
\* None: no coefficient equals it
NoCoeff == ML_DSA_Q

\* "if z < self.q: return z; else: return None"
BelowQ(self, z) == IF z < self.q THEN z ELSE NoCoeff

coeff_from_three_bytes(self, b0, b1, b2) ==
    BelowQ(self, (IF b2 > 127 THEN b2 - 128 ELSE b2) * 65536 + b1 * 256 + b0)

coeff_from_half_byte(self, b) ==
    IF self.eta = 2 /\ b < 15 THEN 2 - (b % 5)
    ELSE IF self.eta = 4 /\ b < 9 THEN 4 - b
    ELSE NoCoeff

-----------------------------------------------------------------------------
(* Algorithms 16 - 19: packing of one polynomial *)

\* z += integer_to_bits(w[i], c) for every coefficient of w
PackedBits(w, c) ==
    list([ t \in 1..(Len(w) * c) |-> BitOf(w[(t - 1) \div c + 1], (t - 1) % c) ])

simple_bit_pack(self, w, b) ==
    bits_to_bytes(PackedBits(Slice(w, 0, self.n), bit_length(b)))

bit_pack(self, w, a, b) ==
    bits_to_bytes(PackedBits(list([ i \in 1..Len(w) |-> b - w[i] ]), bit_length(a + b)))

\* bits_to_integer(z[i * c : (i + 1) * c], c) for i in range(256)
UnpackedIntegers(self, z, c) ==
    list([ i \in 1..self.n |-> bits_to_integer(Slice(z, (i - 1) * c, i * c), c) ])

\* the list w, or Raised when computing one of its elements raised
OrRaised(w) == IF \E i \in 1..Len(w) : w[i] = IndexError THEN Raised ELSE w

simple_bit_unpack(self, v, b) ==
    OrRaised(UnpackedIntegers(self, bytes_to_bits(v), bit_length(b)))

\* w += [b - x] for the unpacked x
FromOffset(b, x) ==
    IF x = Raised THEN Raised ELSE list([ i \in 1..Len(x) |-> b - x[i] ])

\* bit_unpack that subtracts from a where it is to subtract from b
BitUnpackFromA(self, v, a, b) ==
    FromOffset(a, simple_bit_unpack(self, v, 2^bit_length(a + b) - 1))

bit_unpack(self, v, a, b) ==
    FromOffset(b, OrRaised(UnpackedIntegers(self, bytes_to_bits(v), bit_length(a + b))))

-----------------------------------------------------------------------------
(* Algorithms 20, 21: the hint *)

\* the columns j of row hrow with hrow[j] != 0, increasing, from column j on
RECURSIVE HintOnes(_, _)
HintOnes(hrow, j) ==
    IF j >= Len(hrow) THEN <<>>
    ELSE IF hrow[j + 1] # 0 THEN <<j>> \o HintOnes(hrow, j + 1)
    ELSE HintOnes(hrow, j + 1)

\* row i of hint_bit_pack, whose columns are ones, with idx indices written
\* before it: the columns go to y[idx], y[idx + 1], ... (IndexError past the
\* end of y) and then y[omega + i] = idx
HintPackRow(self, i, idx, y, ones) ==
    IF idx + Len(ones) > Len(y) THEN Raised
    ELSE list([ p \in 1..Len(y) |->
             IF p - 1 = self.omega + i THEN idx + Len(ones)
             ELSE IF p - 1 >= idx /\ p - 1 < idx + Len(ones) THEN ones[p - idx]
             ELSE y[p] ])

\* the loop of hint_bit_pack from row i on
RECURSIVE HintPackLoop(_, _, _, _, _)
HintPackLoop(self, hh, i, idx, y) ==
    IF i = self.k \/ y = Raised THEN y
    ELSE HintPackLoop(self, hh, i + 1, idx + Len(HintOnes(hh[i + 1], 0)),
                      HintPackRow(self, i, idx, y, HintOnes(hh[i + 1], 0)))

hint_bit_pack(self, hh) ==
    HintPackLoop(self, hh, 0, 0, Fill(0, self.omega + self.k))

\* the bytes after the last index are not looked at
HintPaddingIgnored(self, y, idx) == "ok"

\* for i in range(idx, omega): if y[i] != 0: return None
HintPadding(self, y, idx) ==
    IF \E t \in idx..(self.omega - 1) : y[t + 1] # 0 THEN "None" ELSE "ok"

\* the loop of hint_bit_unpack in row i, whose first index is at first
RECURSIVE HintUnpackLoop(_, _, _, _, _, _)
HintUnpackLoop(self, y, i, first, idx, hh) ==
    IF i = self.k
    THEN [res |-> HintPadding(self, y, idx), h |-> hh]
    ELSE IF self.omega + i >= Len(y)
         THEN [res |-> "IndexError", h |-> hh]
    ELSE IF idx = first /\ (y[self.omega + i + 1] < idx \/ y[self.omega + i + 1] > self.omega)
         THEN [res |-> "None", h |-> hh]
    ELSE IF idx < y[self.omega + i + 1]
         THEN IF idx > first /\ y[idx] >= y[idx + 1]
              THEN [res |-> "None", h |-> hh]
              ELSE IF y[idx + 1] >= self.n
                   THEN [res |-> "IndexError", h |-> hh]
                   ELSE HintUnpackLoop(self, y, i, first, idx + 1,
                                       [hh EXCEPT ![i + 1][y[idx + 1] + 1] = 1])
    ELSE HintUnpackLoop(self, y, i + 1, idx, idx, hh)

\* res is "ok" (h is the hint), "None" or "IndexError"
hint_bit_unpack(self, y) ==
    HintUnpackLoop(self, y, 0, 0, 0, list([ i \in 1..self.k |-> Fill(0, self.n) ]))

-----------------------------------------------------------------------------
(* Algorithms 22 - 28: keys and signatures *)

\* "for x in v: out += pack(x)" with bit_pack(x, a, b)
PackedPolys(self, v, a, b) ==
    Concat(list([ i \in 1..Len(v) |-> bit_pack(self, v[i], a, b) ]))

\* "for x in v: out += pack(x)" with simple_bit_pack(x, b)
SimplePackedPolys(self, v, b) ==
    Concat(list([ i \in 1..Len(v) |-> simple_bit_pack(self, v[i], b) ]))

\* cnt polynomials of le bytes each, from byte pt of data on, through
\* bit_unpack(_, a, b)
UnpackedPolys(self, data, pt, le, cnt, a, b) ==
    list([ i \in 1..cnt |->
        bit_unpack(self, Slice(data, pt + le * (i - 1), pt + le * i), a, b) ])

\* a call on the polynomials of v raised
AnyRaised(v) == \E i \in 1..Len(v) : v[i] = Raised

\* pk_encode that packs t1 one bit narrower
PkEncodeNarrow(self, rho, t1) ==
    rho \o SimplePackedPolys(self, t1, 2^(bit_length(self.q - 1) - self.d - 1) - 1)

pk_encode(self, rho, t1) ==
    rho \o SimplePackedPolys(self, t1, 2^(bit_length(self.q - 1) - self.d) - 1)

\* bitlen_b of pk_decode
BitlenT1(self) == bit_length(self.q - 1) - self.d

\* (rho, t1), or exc when simple_bit_unpack raised
PkDecoded(pk, t1) == After(t1, [ exc |-> AnyRaised(t1), rho |-> Slice(pk, 0, 32), t1 |-> t1 ])

pk_decode(self, pk) ==
    PkDecoded(pk,
        list([ i \in 1..self.k |->
            simple_bit_unpack(self,
                Slice(pk, 32 + (self.n \div 8) * BitlenT1(self) * (i - 1),
                          32 + (self.n \div 8) * BitlenT1(self) * i),
                2^BitlenT1(self) - 1) ]))

sk_encode(self, rho, kk, tr, s1, s2, t0) ==
    rho \o kk \o tr
    \o PackedPolys(self, s1, self.eta, self.eta)
    \o PackedPolys(self, s2, self.eta, self.eta)
    \o PackedPolys(self, t0, 2^(self.d - 1) - 1, 2^(self.d - 1))

\* le and ld of sk_decode
BytesEta(self) == (self.n \div 8) * bit_length(2 * self.eta)

BytesT0(self) == (self.n \div 8) * self.d

\* (rho, kk, tr, s1, s2, t0), or exc when bit_unpack raised
SkDecoded(sk, s1, s2, t0) ==
    After(s1, After(s2, After(t0,
    [ exc |-> AnyRaised(s1) \/ AnyRaised(s2) \/ AnyRaised(t0),
      rho |-> Slice(sk, 0, 32), kk |-> Slice(sk, 32, 64), tr |-> Slice(sk, 64, 128),
      s1 |-> s1, s2 |-> s2, t0 |-> t0 ])))

sk_decode(self, sk) ==
    SkDecoded(sk,
        UnpackedPolys(self, sk, 128, BytesEta(self), self.ell, self.eta, self.eta),
        UnpackedPolys(self, sk, 128 + BytesEta(self) * self.ell, BytesEta(self), self.k,
                      self.eta, self.eta),
        UnpackedPolys(self, sk, 128 + BytesEta(self) * (self.ell + self.k), BytesT0(self),
                      self.k, 2^(self.d - 1) - 1, 2^(self.d - 1)))

\* sig += the packed hint, when hint_bit_pack returned
WithHint(sig, packed) == After(sig, After(packed, IF packed = Raised THEN Raised ELSE sig \o packed))

sig_encode(self, ct, z, hh) ==
    WithHint(ct \o PackedPolys(self, Slice(z, 0, self.ell), self.gam1 - 1, self.gam1),
             hint_bit_pack(self, hh))

\* bl of sig_decode
BytesZ(self) == (self.n \div 8) * (1 + bit_length(self.gam1 - 1))

\* (ct, z, h) with the outcome u of hint_bit_unpack: exc when it raised,
\* hnone when h is None
SigDecoded(self, sig, z, u) ==
    After(u,
    [ exc |-> u.res = "IndexError", hnone |-> u.res = "None",
      ct |-> Slice(sig, 0, self.lam \div 4), z |-> z, h |-> u.h ])

\* sig_decode after its loop: bit_unpack raised, or the hint is unpacked
SigHint(self, sig, z) ==
    After(z,
    IF AnyRaised(z)
    THEN SigDecoded(self, sig, z, [res |-> "IndexError", h |-> <<>>])
    ELSE SigDecoded(self, sig, z,
             hint_bit_unpack(self,
                 Slice(sig, self.lam \div 4 + BytesZ(self) * self.ell,
                       self.lam \div 4 + BytesZ(self) * self.ell + self.omega + self.k))))

sig_decode(self, sig) ==
    SigHint(self, sig,
        UnpackedPolys(self, sig, self.lam \div 4, BytesZ(self), self.ell,
                      self.gam1 - 1, self.gam1))

w1_encode(self, w1) ==
    SimplePackedPolys(self, w1, (self.q - 1) \div (2 * self.gam2) - 1)

-----------------------------------------------------------------------------
(* Algorithms 29 - 34: sampling *)

\* j = xof.read(1)[0]; while j > i: j = xof.read(1)[0]
RECURSIVE SampleIndex(_, _)
SampleIndex(x, i) ==
    IF XofByte(x) > i THEN SampleIndex(XofStep(x), i)
    ELSE [j |-> XofByte(x), x |-> XofStep(x)]

\* c[j] = (-1) ** bit without c[i] = c[j] before it
SampleSwapNoMove(c, i, j, bit) == [c EXCEPT ![j + 1] = IF bit = 1 THEN -1 ELSE 1]

\* c[i] = c[j]; c[j] = (-1) ** bit
SampleSwap(c, i, j, bit) ==
    [[c EXCEPT ![i + 1] = c[j + 1]] EXCEPT ![j + 1] = IF bit = 1 THEN -1 ELSE 1]

RECURSIVE SampleInBallLoop(_, _, _, _, _)

\* the body of the loop for i, with r the index read and the stream after it
SampleInBallStep(self, r, hbits, i, c) ==
    SampleInBallLoop(self, r.x, hbits, i + 1,
                     SampleSwap(c, i, r.j, hbits[i + self.tau - self.n + 1]))

SampleInBallLoop(self, x, hbits, i, c) ==
    IF i = self.n THEN c
    ELSE SampleInBallStep(self, SampleIndex(x, i), hbits, i, c)

\* sample_in_ball once rho is absorbed
SampleInBallFrom(self, xof) ==
    SampleInBallLoop(self, XofSkip(xof, 8), bytes_to_bits(XofRead(xof, 8)),
                     self.n - self.tau, Fill(0, self.n))

sample_in_ball(self, rho) == SampleInBallFrom(self, XOFHash("shake256", rho))

\* a[j] = c without j += 1
AcceptNoAdvance(a, c) == a

\* a[j] = c; if a[j] is not None: j += 1
Accept(a, c) == IF c # NoCoeff THEN Append(a, c) ELSE a

\* if c != None and j < 256: a[j] = c; j += 1
AcceptBelow(self, a, c) == IF c # NoCoeff /\ Len(a) < self.n THEN Append(a, c) ELSE a

\* coeff_from_three_bytes(s[0], s[1], s[2])
CoeffFromRead(self, s) == coeff_from_three_bytes(self, s[1], s[2], s[3])

RECURSIVE RejNttLoop(_, _, _)
RejNttLoop(self, g, a) ==
    IF Len(a) >= self.n THEN a
    ELSE RejNttLoop(self, XofSkip(g, 3), Accept(a, CoeffFromRead(self, XofRead(g, 3))))

rej_ntt_poly(self, rho) == RejNttLoop(self, XOFHash("shake128", rho), <<>>)

\* the two coefficients of the byte z, the high nibble first
TwoCoeffsHighFirst(self, a, z) ==
    AcceptBelow(self, Accept(a, coeff_from_half_byte(self, z \div 16)),
                coeff_from_half_byte(self, z % 16))

\* the two coefficients of the byte z
TwoCoeffs(self, a, z) ==
    AcceptBelow(self, Accept(a, coeff_from_half_byte(self, z % 16)),
                coeff_from_half_byte(self, z \div 16))

RECURSIVE RejBoundedLoop(_, _, _)
RejBoundedLoop(self, hx, a) ==
    IF Len(a) >= self.n THEN a
    ELSE RejBoundedLoop(self, XofStep(hx), TwoCoeffs(self, a, XofByte(hx)))

rej_bounded_poly(self, rho) == RejBoundedLoop(self, XOFHash("shake256", rho), <<>>)

\* rhop of expand_a for row r and column s
expand_a_rhop(rho, r, s) == rho \o integer_to_bytes(s, 1) \o integer_to_bytes(r, 1)

expand_a(self, rho) ==
    list([ r \in 1..self.k |-> list([ c \in 1..self.ell |->
        rej_ntt_poly(self, expand_a_rhop(rho, r - 1, c - 1)) ]) ])

\* the seed of s1[r] in expand_s
expand_s1_seed(rho, r) == rho \o integer_to_bytes(r, 2)

\* the seed of s2[r] without ell added to r
ExpandS2SeedNoOffset(self, rho, r) == rho \o integer_to_bytes(r, 2)

\* the seed of s2[r] in expand_s
expand_s2_seed(self, rho, r) == rho \o integer_to_bytes(r + self.ell, 2)

expand_s(self, rho) ==
    [ s1 |-> list([ r \in 1..self.ell |->
                 rej_bounded_poly(self, expand_s1_seed(rho, r - 1)) ]),
      s2 |-> list([ r \in 1..self.k |->
                 rej_bounded_poly(self, expand_s2_seed(self, rho, r - 1)) ]) ]

\* rhop of expand_mask for row r
expand_mask_rhop(rho, mu, r) == rho \o integer_to_bytes(mu + r, 2)

expand_mask(self, rho, mu) ==
    list([ r \in 1..self.ell |->
        bit_unpack(self,
                   h(expand_mask_rhop(rho, mu, r - 1),
                     (self.n \div 8) * (1 + bit_length(self.gam1 - 1))),
                   self.gam1 - 1, self.gam1) ])

-----------------------------------------------------------------------------
(* 2.3 and the coefficient-wise operations *)

\* the representative of m in [-alpha/2, alpha/2): the lower end is closed
\* and the upper end is open
ModpmLowerClosed(m, alpha) == ((m + alpha \div 2) % alpha) - alpha \div 2

modpm(m, alpha) == -((alpha \div 2 - m) % alpha) + (alpha \div 2)

RECURSIVE MaxOf(_, _, _)
MaxOf(f, i, y) == IF i > Len(f) THEN y ELSE MaxOf(f, i + 1, Max(y, f[i]))

\* inf_norm of a polynomial
inf_norm_poly(self, x) ==
    MaxOf(list([ i \in 1..Len(x) |-> Abs(modpm(x[i], self.q)) ]), 1, 0)

\* inf_norm of a vector of polynomials
inf_norm(self, x) ==
    MaxOf(list([ i \in 1..Len(x) |-> inf_norm_poly(self, x[i]) ]), 1, 0)

\* add, sub, neg of a polynomial
add(self, a, b) == list([ i \in 1..Len(a) |-> (a[i] + b[i]) % self.q ])

sub(self, a, b) == list([ i \in 1..Len(a) |-> (a[i] - b[i]) % self.q ])

neg(self, a) == list([ i \in 1..Len(a) |-> (-a[i]) % self.q ])

\* neq of two vectors of polynomials
neq(a, b) ==
    list([ i \in 1..Len(a) |-> list([ j \in 1..Len(a[i]) |-> IF a[i][j] = b[i][j] THEN 0 ELSE 1 ]) ])

RECURSIVE SumOf(_, _)
SumOf(f, i) == IF i > Len(f) THEN 0 ELSE f[i] + SumOf(f, i + 1)

\* weight of a vector of polynomials
weight(a) ==
    SumOf(list([ i \in 1..Len(a) |->
              SumOf(list([ j \in 1..Len(a[i]) |-> IF a[i][j] = 0 THEN 0 ELSE 1 ]), 1) ]), 1)

-----------------------------------------------------------------------------
(* Algorithms 35 - 40: rounding and hints *)

\* (r1, r0) from rp = r mod q and r0 = rp mod+- 2^d
Power2RoundPair(self, rp, r0) == <<(rp - r0) \div 2^self.d, r0>>

\* (r1, r0) with r0 = r mod 2^d, not centered
Power2RoundFloor(self, rx) ==
    Power2RoundPair(self, rx % self.q, (rx % self.q) % 2^self.d)

\* (r1, r0) of one coefficient
Power2RoundCoeff(self, rx) ==
    Power2RoundPair(self, rx % self.q, modpm(rx % self.q, 2^self.d))

\* (r1vv, r0vv)
power2round(self, r) ==
    << list([ i \in 1..Len(r) |-> list([ j \in 1..Len(r[i]) |-> Power2RoundCoeff(self, r[i][j])[1] ]) ]),
       list([ i \in 1..Len(r) |-> list([ j \in 1..Len(r[i]) |-> Power2RoundCoeff(self, r[i][j])[2] ]) ]) >>

\* decompose without the case rp - r0 = q - 1
DecomposeNoWrap(self, rp, r0) == <<(rp - r0) \div (2 * self.gam2), r0>>

\* (r1, r0) from rp = r mod q and r0 = rp mod+- 2 * gam2
DecomposePair(self, rp, r0) ==
    IF rp - r0 = self.q - 1 THEN <<0, r0 - 1>>
    ELSE <<(rp - r0) \div (2 * self.gam2), r0>>

decompose(self, r) ==
    DecomposePair(self, r % self.q, modpm(r % self.q, 2 * self.gam2))

high_bits(self, r) ==
    list([ i \in 1..Len(r) |-> list([ j \in 1..Len(r[i]) |-> decompose(self, r[i][j])[1] ]) ])

low_bits(self, r) ==
    list([ i \in 1..Len(r) |-> list([ j \in 1..Len(r[i]) |-> decompose(self, r[i][j])[2] ]) ])

\* [self.add(a[i], b[i]) for i in range(len(a))]
AddVec(self, a, b) == After(a, After(b, list([ i \in 1..Len(a) |-> add(self, a[i], b[i]) ])))

\* [self.sub(a[i], b[i]) for i in range(len(a))]
SubVec(self, a, b) == After(a, After(b, list([ i \in 1..Len(a) |-> sub(self, a[i], b[i]) ])))

\* [self.neg(x) for x in a]
NegVec(self, a) == After(a, list([ i \in 1..Len(a) |-> neg(self, a[i]) ]))

\* make_hint that sets no coefficient
MakeHintNone(self, z, r) == neq(high_bits(self, r), high_bits(self, r))

make_hint(self, z, r) ==
    neq(high_bits(self, r), high_bits(self, AddVec(self, r, z)))

\* use_hint of one coefficient without the reduction modulo m
UseHintPairUnreduced(m, hbit, d) ==
    IF hbit = 1 /\ d[2] > 0 THEN d[1] + 1
    ELSE IF hbit = 1 /\ d[2] <= 0 THEN d[1] - 1
    ELSE d[1]

\* use_hint of one coefficient with (r1, r0) = d, modulo m
UseHintPair(m, hbit, d) ==
    IF hbit = 1 /\ d[2] > 0 THEN (d[1] + 1) % m
    ELSE IF hbit = 1 /\ d[2] <= 0 THEN (d[1] - 1) % m
    ELSE d[1]

UseHintCoeff(self, hbit, r) ==
    UseHintPair((self.q - 1) \div (2 * self.gam2), hbit, decompose(self, r))

\* use_hint that leaves the hint out: the high bits of r as they are
UseHintUnused(self, hh, r) == high_bits(self, r)

use_hint(self, hh, r) ==
    list([ i \in 1..Len(hh) |-> list([ j \in 1..self.n |-> UseHintCoeff(self, hh[i][j], r[i][j]) ]) ])

-----------------------------------------------------------------------------
(* Algorithms 41 - 48: the transform *)

\* acc * 256 + x * digit, modulo q
MulStep(acc, x, digit, q) == (((acc * 256) % q) + ((x * digit) % q)) % q

\* (a * b) % q of Python's unbounded integers, in 32-bit steps (q < 2^23)
MulQ(a, b, q) ==
    MulStep(MulStep(((a % q) * ((b % q) \div 65536)) % q,
                    a % q, ((b % q) \div 256) % 256, q),
            a % q, (b % q) % 256, q)

\* the bits of m taken in their own order
BitRev8Unreversed(m) == bits_to_integer(integer_to_bits(m, 8), 8)

\* Algorithm 43: the 8 bits of m in reverse order
bitrev8(m) == bits_to_integer(list([ i \in 1..8 |-> integer_to_bits(m, 8)[8 - i + 1] ]), 8)

\* (b ** e) % q by squaring, of Python's unbounded integers
RECURSIVE PowQ(_, _, _)
PowQ(b, e, q) ==
    IF e = 0 THEN 1
    ELSE IF e % 2 = 1 THEN MulQ(b, PowQ(MulQ(b, b, q), e \div 2, q), q)
    ELSE PowQ(MulQ(b, b, q), e \div 2, q)

\* the butterflies of the block at st with zeta z
NttBlock(self, w, z, le, st) ==
    list([ x \in 1..self.n |->
        IF x - 1 >= st /\ x - 1 < st + le
        THEN (w[x] + MulQ(z, w[x + le], self.q)) % self.q
        ELSE IF x - 1 >= st + le /\ x - 1 < st + 2 * le
        THEN (w[x - le] - MulQ(z, w[x], self.q)) % self.q
        ELSE w[x] ])

\* the blocks st, st + 2 * le, ... of one layer; m is the last zeta used
RECURSIVE NttBlocks(_, _, _, _, _)
NttBlocks(self, w, m, le, st) ==
    After(w,
    IF st >= self.n THEN w
    ELSE NttBlocks(self, NttBlock(self, w, ML_DSA_ZETAS[m + 2], le, st),
                   m + 1, le, st + 2 * le))

RECURSIVE NttLayers(_, _, _, _)
NttLayers(self, w, m, le) ==
    IF le < 1 THEN w
    ELSE NttLayers(self, NttBlocks(self, w, m, le, 0), m + self.n \div (2 * le), le \div 2)

ntt(self, w) == NttLayers(self, w, 0, self.n \div 2)

\* the butterflies of the block at st with zeta z
NttInvBlock(self, w, z, le, st) ==
    list([ x \in 1..self.n |->
        IF x - 1 >= st /\ x - 1 < st + le
        THEN (w[x] + w[x + le]) % self.q
        ELSE IF x - 1 >= st + le /\ x - 1 < st + 2 * le
        THEN MulQ(z, (w[x - le] - w[x]) % self.q, self.q)
        ELSE w[x] ])

RECURSIVE NttInvBlocks(_, _, _, _, _)
NttInvBlocks(self, w, m, le, st) ==
    After(w,
    IF st >= self.n THEN w
    ELSE NttInvBlocks(self, NttInvBlock(self, w, -ML_DSA_ZETAS[m], le, st),
                      m - 1, le, st + 2 * le))

RECURSIVE NttInvLayers(_, _, _, _)
NttInvLayers(self, w, m, le) ==
    IF le >= self.n THEN w
    ELSE NttInvLayers(self, NttInvBlocks(self, w, m, le, 0), m - self.n \div (2 * le), 2 * le)

\* [f * x for x in w], modulo q
Scaled(self, f, w) == After(w, list([ j \in 1..self.n |-> MulQ(f, w[j], self.q) ]))

\* ntt_inverse without the multiplication by f
NttInverseUnscaled(self, w) == NttInvLayers(self, w, self.n, 1)

\* f = 8347681 is 256^-1 mod q; for the ring of self.n coefficients, n^-1
ntt_inverse(self, w) ==
    Scaled(self, self.q - (self.q - 1) \div self.n, NttInvLayers(self, w, self.n, 1))

mul_ntt(self, a, b) == list([ i \in 1..self.n |-> MulQ(a[i], b[i], self.q) ])

RECURSIVE MatrixRow(_, _, _, _, _)
MatrixRow(self, mrow, v, j, acc) ==
    After(acc,
    IF j > self.ell THEN acc
    ELSE MatrixRow(self, mrow, v, j + 1, add(self, acc, mul_ntt(self, mrow[j], v[j]))))

matrix_vector_ntt(self, m, v) ==
    After(v,
    list([ i \in 1..self.k |-> MatrixRow(self, m[i], v, 1, Fill(0, self.n)) ]))

\* [self.ntt(x) for x in v]
NttVec(self, v) == After(v, list([ i \in 1..Len(v) |-> ntt(self, v[i]) ]))

\* [self.ntt_inverse(x) for x in v]
NttInverseVec(self, v) == After(v, list([ i \in 1..Len(v) |-> ntt_inverse(self, v[i]) ]))

\* [self.mul_ntt(ch, x) for x in v]
MulNttVec(self, ch, v) == After(ch, After(v, list([ i \in 1..Len(v) |-> mul_ntt(self, ch, v[i]) ])))

\* [self.ntt_inverse(self.mul_ntt(ch, x)) for x in v]
MulInverseVec(self, ch, v) == NttInverseVec(self, MulNttVec(self, ch, v))

-----------------------------------------------------------------------------
(* Algorithm 6: ML-DSA.KeyGen_internal *)

\* pk and sk, once pk is encoded: tr = h(pk, 64)
KeygenKeys(self, rho, kk, ss, t0, pk) ==
    After(pk,
    [ pk |-> pk, sk |-> sk_encode(self, rho, kk, h(pk, 64), ss.s1, ss.s2, t0) ])

\* (t1, t0) = t10
KeygenEncode(self, rho, kk, ss, t10) ==
    After(t10,
    KeygenKeys(self, rho, kk, ss, t10[2], pk_encode(self, rho, t10[1])))

\* t = A s1 + s2 and its rounding, with (s1, s2) = ss
KeygenRound(self, rho, kk, ss) ==
    After(ss,
    KeygenEncode(self, rho, kk, ss,
        power2round(self,
            AddVec(self,
                   NttInverseVec(self,
                       matrix_vector_ntt(self, expand_a(self, rho), NttVec(self, ss.s1))),
                   ss.s2))))

\* rho = se[0:32], rhop = se[32:96], kk = se[96:128]
KeygenExpand(self, se) ==
    After(se,
    KeygenRound(self, Slice(se, 0, 32), Slice(se, 96, 128),
                expand_s(self, Slice(se, 32, 96))))

keygen_internal(self, xi) ==
    KeygenExpand(self,
        h(xi \o integer_to_bytes(self.k, 1) \o integer_to_bytes(self.ell, 1), 128))

-----------------------------------------------------------------------------
(* Algorithm 7: ML-DSA.Sign_internal *)

\* what sign_internal computes before its loop, once mu is known
SignSetupMu(self, dsk, rnd, mu) ==
    After(mu,
    [ s1h |-> NttVec(self, dsk.s1),
      s2h |-> NttVec(self, dsk.s2),
      t0h |-> NttVec(self, dsk.t0),
      ah |-> expand_a(self, dsk.rho),
      mu |-> mu,
      rhopp |-> h(dsk.kk \o rnd \o mu, 64) ])

\* what sign_internal computes before its loop, from the decoded key dsk
SignSetup(self, dsk, mp, rnd) == SignSetupMu(self, dsk, rnd, h(dsk.tr \o mp, 64))

\* the outcome of one pass of the loop: the candidate with the r0 and ct0 it
\* was judged by, ct0 and h empty where the pass did not compute them
Rejected(why, ct, z, r0, ct0, hh) ==
    [ accept |-> FALSE, why |-> why, ct |-> ct, z |-> z, r0 |-> r0, ct0 |-> ct0, h |-> hh ]

Accepted(ct, z, r0, ct0, hh) ==
    [ accept |-> TRUE, why |-> "", ct |-> ct, z |-> z, r0 |-> r0, ct0 |-> ct0, h |-> hh ]

\* the hint check without the weight of the hint
SignHintCheckNormOnly(self, ct, z, r0, ct0, hh) ==
    After(hh,
    IF inf_norm(self, ct0) >= self.gam2
    THEN Rejected("hint", ct, z, r0, ct0, hh)
    ELSE Accepted(ct, z, r0, ct0, hh))

\* "if ct0_norm >= self.gam2 or h_wt > self.omega"
SignHintCheck(self, ct, z, r0, ct0, hh) ==
    After(hh,
    IF inf_norm(self, ct0) >= self.gam2 \/ weight(hh) > self.omega
    THEN Rejected("hint", ct, z, r0, ct0, hh)
    ELSE Accepted(ct, z, r0, ct0, hh))

\* the else branch of the norm check: ct0n, h_r and h
SignHint(self, w, ct, cs2, z, r0, ct0) ==
    After(ct0,
    SignHintCheck(self, ct, z, r0, ct0,
        make_hint(self, NegVec(self, ct0), AddVec(self, SubVec(self, w, cs2), ct0))))

\* z_norm, r0_norm and the norm check
SignNormCheck(self, pre, w, ct, ch, cs2, z, r0) ==
    After(r0,
    IF inf_norm(self, z) >= self.gam1 - self.beta
       \/ inf_norm(self, r0) >= self.gam2 - self.beta
    THEN Rejected("norm", ct, z, r0, <<>>, <<>>)
    ELSE SignHint(self, w, ct, cs2, z, r0, MulInverseVec(self, ch, pre.t0h)))

\* r0
SignNorms(self, pre, w, ct, ch, cs2, z) ==
    After(cs2, After(z,
    SignNormCheck(self, pre, w, ct, ch, cs2, z, low_bits(self, SubVec(self, w, cs2)))))

\* cs1, cs2 and z
SignResponse(self, pre, y, w, ct, ch) ==
    After(ch,
    SignNorms(self, pre, w, ct, ch, MulInverseVec(self, ch, pre.s2h),
              AddVec(self, y, MulInverseVec(self, ch, pre.s1h))))

\* c and ch
SignChallenge(self, pre, y, w, ct) ==
    After(ct,
    SignResponse(self, pre, y, w, ct, ntt(self, sample_in_ball(self, ct))))

\* w1 and ct
SignCommit(self, pre, y, w) ==
    After(w,
    SignChallenge(self, pre, y, w,
        h(pre.mu \o w1_encode(self, high_bits(self, w)), self.lam \div 4)))

\* yh and w
SignMask(self, pre, y) ==
    After(y,
    SignCommit(self, pre, y,
        NttInverseVec(self, matrix_vector_ntt(self, pre.ah, NttVec(self, y)))))

\* one pass of the while loop with counter kappa: the candidate (ct, z, h) and
\* whether the loop keeps it
SignIteration(self, pre, kappa) ==
    SignMask(self, pre, expand_mask(self, pre.rhopp, kappa))

\* z = [[self.modpm(x, self.q) for x in zi] for zi in z]
CenteredVec(self, z) ==
    list([ i \in 1..Len(z) |-> list([ j \in 1..Len(z[i]) |-> modpm(z[i][j], self.q) ]) ])

RECURSIVE SignLoop(_, _, _)

\* the end of the pass it with counter kappa: the encoded signature and the
\* counter after the pass, or the next pass
SignPass(self, pre, kappa, it) ==
    After(it,
    IF it.accept
    THEN [ sig |-> sig_encode(self, it.ct, CenteredVec(self, it.z), it.h),
           kappa |-> kappa + self.ell ]
    ELSE SignLoop(self, pre, kappa + self.ell))

\* the loop from counter kappa on
SignLoop(self, pre, kappa) == SignPass(self, pre, kappa, SignIteration(self, pre, kappa))

\* sign_internal with the decoded key
SignDecoded(self, dsk, mp, rnd) ==
    After(dsk,
    IF dsk.exc THEN [ sig |-> Raised, kappa |-> 0 ]
    ELSE SignLoop(self, SignSetup(self, dsk, mp, rnd), 0))

sign_internal(self, sk, mp, rnd) == SignDecoded(self, sk_decode(self, sk), mp, rnd)

-----------------------------------------------------------------------------
(* Algorithm 8: ML-DSA.Verify_internal; "True", "False" or "IndexError" *)

\* th = [self.ntt([x << self.d for x in t1i]) for t1i in t1]
ShiftedNttVec(self, t1) ==
    NttVec(self, list([ i \in 1..Len(t1) |->
                     list([ j \in 1..Len(t1[i]) |-> t1[i][j] * 2^self.d ]) ]))

\* wp = A z - c t1 2^d
VerifyApprox(self, dpk, dsig) ==
    NttInverseVec(self,
        SubVec(self,
               matrix_vector_ntt(self, expand_a(self, dpk.rho), NttVec(self, dsig.z)),
               MulNttVec(self, ntt(self, sample_in_ball(self, dsig.ct)),
                         ShiftedNttVec(self, dpk.t1))))

\* ctp
VerifyChallenge(self, pk, mp, dpk, dsig) ==
    h(h(h(pk, 64) \o mp, 64)
      \o w1_encode(self, use_hint(self, dsig.h, VerifyApprox(self, dpk, dsig))),
      self.lam \div 4)

\* the last line of verify_internal without "ct == ctp"
VerifyCheckNormOnly(self, dsig, ctp) ==
    After(ctp,
    IF inf_norm(self, dsig.z) < self.gam1 - self.beta THEN "True" ELSE "False")

\* "return z_norm < self.gam1 - self.beta and ct == ctp"
VerifyCheck(self, dsig, ctp) ==
    After(ctp,
    IF inf_norm(self, dsig.z) < self.gam1 - self.beta /\ dsig.ct = ctp
    THEN "True" ELSE "False")

\* verify_internal with both arguments decoded: "if h is None: return False"
VerifySig(self, pk, mp, dpk, dsig) ==
    After(dsig,
    IF dsig.exc THEN "IndexError"
    ELSE IF dsig.hnone THEN "False"
    ELSE VerifyCheck(self, dsig, VerifyChallenge(self, pk, mp, dpk, dsig)))

\* verify_internal with the public key decoded
VerifyPk(self, pk, mp, sig, dpk) ==
    After(dpk,
    IF dpk.exc THEN "IndexError"
    ELSE VerifySig(self, pk, mp, dpk, sig_decode(self, sig)))

verify_internal(self, pk, mp, sig) == VerifyPk(self, pk, mp, sig, pk_decode(self, pk))

-----------------------------------------------------------------------------
(* Algorithms 2 - 5: the public operations, on the fields self the call runs *)
(* with; the outcome of a call is a record                                   *)

\* an optional bytes argument that is None
NoneArg == <<IndexError - 1>>

ResBytes(b, kappa) == [ kind |-> "bytes", val |-> b, val2 |-> <<>>, kappa |-> kappa ]

ResKeys(kp) == [ kind |-> "keys", val |-> kp.pk, val2 |-> kp.sk, kappa |-> 0 ]

ResOf(kind) == [ kind |-> kind, val |-> <<>>, val2 |-> <<>>, kappa |-> 0 ]

\* randomness of 32 bytes 255 where rnd_in is None
RndOfOnes(rnd_in) == IF rnd_in = NoneArg THEN Fill(255, 32) ELSE rnd_in

\* "if rnd_in is None: rnd = b'\x00' * 32; else: rnd = rnd_in"
RndOf(rnd_in) == IF rnd_in = NoneArg THEN Fill(0, 32) ELSE rnd_in

\* M' without the byte that holds the length of the context
PureRepNoLength(ctx, m) == integer_to_bytes(0, 1) \o ctx \o m

\* M' of sign and verify
PureRep(ctx, m) ==
    integer_to_bytes(0, 1) \o integer_to_bytes(Len(ctx), 1) \o ctx \o m

\* the selector looked up with SHA-256 standing in for one that is unknown
PreHashOrDefault(ph, m) ==
    CASE ph = "SHA-512" ->
           [ ok |-> TRUE, oid |-> <<6, 9, 96, 134, 72, 1, 101, 3, 4, 2, 3>>,
             phm |-> compute_hash("sha512", m) ]
      [] ph = "SHAKE128" ->
           [ ok |-> TRUE, oid |-> <<6, 9, 96, 134, 72, 1, 101, 3, 4, 2, 11>>,
             phm |-> compute_shake("shake128", m, 256 \div 8) ]
      [] OTHER ->
           [ ok |-> TRUE, oid |-> <<6, 9, 96, 134, 72, 1, 101, 3, 4, 2, 1>>,
             phm |-> compute_hash("sha256", m) ]

\* the OID and the digest for the selector ph
PreHash(ph, m) ==
    CASE ph = "SHA-256" ->
           [ ok |-> TRUE, oid |-> <<6, 9, 96, 134, 72, 1, 101, 3, 4, 2, 1>>,
             phm |-> compute_hash("sha256", m) ]
      [] ph = "SHA-512" ->
           [ ok |-> TRUE, oid |-> <<6, 9, 96, 134, 72, 1, 101, 3, 4, 2, 3>>,
             phm |-> compute_hash("sha512", m) ]
      [] ph = "SHAKE128" ->
           [ ok |-> TRUE, oid |-> <<6, 9, 96, 134, 72, 1, 101, 3, 4, 2, 11>>,
             phm |-> compute_shake("shake128", m, 256 \div 8) ]
      [] OTHER -> [ ok |-> FALSE, oid |-> <<>>, phm |-> <<>> ]

\* M' of hash_ml_dsa_sign and hash_ml_dsa_verify
HashRep(ctx, pre) ==
    integer_to_bytes(1, 1) \o integer_to_bytes(Len(ctx), 1) \o ctx \o pre.oid \o pre.phm

\* the outcome of a call that returns what sign_internal returned
SignResult(r) == IF r.sig = Raised THEN ResOf("IndexError") ELSE ResBytes(r.sig, r.kappa)

\* sign with the limit on the context off by one
SignLongerContext(self, sk, m, ctx, rnd_in) ==
    IF Len(ctx) > 256 THEN ResOf("None")
    ELSE SignResult(sign_internal(self, sk, PureRep(ctx, m), RndOf(rnd_in)))

sign(self, sk, m, ctx, rnd_in) ==
    IF Len(ctx) > 255 THEN ResOf("None")
    ELSE SignResult(sign_internal(self, sk, PureRep(ctx, m), RndOf(rnd_in)))

verify(self, pk, m, sig, ctx) ==
    IF Len(ctx) > 255 THEN ResOf("ValueError")
    ELSE ResOf(verify_internal(self, pk, PureRep(ctx, m), sig))

\* hash_ml_dsa_sign after the selector ph is looked up
HashSignWith(self, sk, ctx, pre, rnd) ==
    IF ~pre.ok THEN ResOf("None")
    ELSE SignResult(sign_internal(self, sk, HashRep(ctx, pre), rnd))

hash_ml_dsa_sign(self, sk, m, ctx, ph, rnd_in) ==
    IF Len(ctx) > 255 THEN ResOf("None")
    ELSE HashSignWith(self, sk, ctx, PreHash(ph, m), RndOf(rnd_in))

\* hash_ml_dsa_verify after the selector ph is looked up
HashVerifyWith(self, pk, sig, ctx, pre) ==
    IF ~pre.ok THEN ResOf("False")
    ELSE ResOf(verify_internal(self, pk, HashRep(ctx, pre), sig))

hash_ml_dsa_verify(self, pk, m, sig, ctx, ph) ==
    IF Len(ctx) > 255 THEN ResOf("None")
    ELSE HashVerifyWith(self, pk, sig, ctx, PreHash(ph, m))

-----------------------------------------------------------------------------
(* resources/utils.py *)

manipulate_first_byte(data) ==
    IF data[1] = 0 THEN <<1>> \o Slice(data, 1, Len(data))
    ELSE <<0>> \o Slice(data, 1, Len(data))

-----------------------------------------------------------------------------
(* One ML_DSA instance and a caller that feeds it the keys and signatures  *)
(* it got from earlier calls                                               *)

VARIABLES
    self,     \* the fields of the instance
    keys,     \* the key pair the caller holds, with the set and seed it came from
    signed,   \* the signature the caller holds, with what it was made from
    last,     \* the last call: operation, arguments, set in effect, outcome
    hist,     \* the calls made so far, in their order
    calls     \* the number of calls made

vars == <<self, keys, signed, last, hist, calls>>

\* the number of calls a run makes
MaxCalls == 3

\* param=None
NoParam == "None"

\* the names a caller passes as param: none, the three of ML_DSA_PARAM, one
\* of them in capitals, and one that ML_DSA_PARAM does not have
ParamArgs == {NoParam} \cup ParamNames \cup {"ML-DSA-44", "ml-dsa-99"}

\* param.lower() of the names of ParamArgs
lower(param) == IF param = "ML-DSA-44" THEN "ml-dsa-44" ELSE param

\* "if param not in ML_DSA_PARAM: raise ValueError", after param.lower()
Unsupported(param) == param # NoParam /\ lower(param) \notin ParamNames

Seeds == {Fill(0, 32), Fill(1, 32)}

\* <<3, 1>> and <<4, 2>> are messages whose signature takes a second iteration
\* under ml-dsa-65 and ml-dsa-87 with the keys of the first seed
Messages == {<<1>>, <<3, 1>>, <<4, 2>>}

\* "if len(ctx) > 255": the longest context
MaxCtx == 255

Contexts == {<<>>, Fill(7, MaxCtx), Fill(7, MaxCtx + 1)}

Randomness == {NoneArg, Fill(0, 32), Fill(5, 32)}

PreHashes == {"SHA-256", "SHA-512", "SHAKE128", "MD5", "sha-256"}

\* a call that falls back to the default set when it names none
with_param_or_default(obj, param) ==
    IF param = NoParam THEN init("ml-dsa-65")
    ELSE IF Unsupported(param) THEN obj
    ELSE init(lower(param))

\* a call that falls back to the default set when it names one that
\* ML_DSA_PARAM does not have
with_param_or_reset(obj, param) ==
    IF param = NoParam THEN obj
    ELSE IF Unsupported(param) THEN init("ml-dsa-65")
    ELSE init(lower(param))

\* "if param is not None: self.__init__(param)": __init__ raises before it
\* assigns a field
with_param(obj, param) ==
    IF param = NoParam \/ Unsupported(param) THEN obj ELSE init(lower(param))

\* the parameter set a call names, or the instance's when it names none
SetOf(obj, param) == IF param = NoParam THEN obj.name ELSE lower(param)

\* the outcome of a call with param: the ValueError of __init__, or res
OrValueError(param, res) == IF Unsupported(param) THEN ResOf("ValueError") ELSE res

NoKeys == [ pk |-> <<>>, sk |-> <<>>, set |-> "", xi |-> <<>> ]

NoSignature ==
    [ sig |-> <<>>, m |-> <<>>, ctx |-> <<>>, ph |-> "", rnd_in |-> <<>>, kappa |-> 0,
      pk |-> <<>>, set |-> "" ]

Call(op, set, args, res) == [ op |-> op, set |-> set, args |-> args, res |-> res ]

\* ML_DSA() : the default parameter set
Init ==
    /\ self = init("ml-dsa-65")
    /\ keys = NoKeys
    /\ signed = NoSignature
    /\ last = Call("__init__", "ml-dsa-65", <<>>, ResOf("None"))
    /\ hist = <<>>
    /\ calls = 0

\* what every call does to the instance and to the record of calls
Called(obj, c) ==
    /\ self' = obj
    /\ last' = c
    /\ hist' = Append(hist, last')
    /\ calls' = calls + 1

KeygenInternal(xi, param) ==
    /\ calls < MaxCalls
    /\ Called(with_param(self, param),
              Call("keygen_internal", SetOf(self, param), [ xi |-> xi, param |-> param ],
                   OrValueError(param, ResKeys(keygen_internal(with_param(self, param), xi)))))
    /\ keys' = IF last'.res.kind = "keys"
               THEN [ pk |-> last'.res.val, sk |-> last'.res.val2, set |-> self'.name,
                      xi |-> xi ]
               ELSE keys
    /\ UNCHANGED signed

\* the caller keeps a signature the call returned
Keep(res, m, ctx, ph, rnd_in, set) ==
    IF res.kind = "bytes"
    THEN [ sig |-> res.val, m |-> m, ctx |-> ctx, ph |-> ph, rnd_in |-> rnd_in,
           kappa |-> res.kappa, pk |-> keys.pk, set |-> set ]
    ELSE signed

Sign(m, ctx, rnd_in, param) ==
    /\ calls < MaxCalls
    /\ keys # NoKeys
    /\ Called(with_param(self, param),
              Call("sign", SetOf(self, param),
                   [ sk |-> keys.sk, m |-> m, ctx |-> ctx, rnd_in |-> rnd_in, param |-> param ],
                   OrValueError(param,
                                sign(with_param(self, param), keys.sk, m, ctx, rnd_in))))
    /\ signed' = Keep(last'.res, m, ctx, "", rnd_in, self'.name)
    /\ UNCHANGED keys

HashSign(m, ctx, ph, rnd_in, param) ==
    /\ calls < MaxCalls
    /\ keys # NoKeys
    /\ Called(with_param(self, param),
              Call("hash_ml_dsa_sign", SetOf(self, param),
                   [ sk |-> keys.sk, m |-> m, ctx |-> ctx, ph |-> ph, rnd_in |-> rnd_in,
                     param |-> param ],
                   OrValueError(param,
                                hash_ml_dsa_sign(with_param(self, param), keys.sk, m, ctx,
                                                 ph, rnd_in))))
    /\ signed' = Keep(last'.res, m, ctx, ph, rnd_in, self'.name)
    /\ UNCHANGED keys

Verify(pk, m, sig, ctx, param) ==
    /\ calls < MaxCalls
    /\ Called(with_param(self, param),
              Call("verify", SetOf(self, param),
                   [ pk |-> pk, m |-> m, sig |-> sig, ctx |-> ctx, param |-> param ],
                   OrValueError(param, verify(with_param(self, param), pk, m, sig, ctx))))
    /\ UNCHANGED <<keys, signed>>

HashVerify(pk, m, sig, ctx, ph, param) ==
    /\ calls < MaxCalls
    /\ Called(with_param(self, param),
              Call("hash_ml_dsa_verify", SetOf(self, param),
                   [ pk |-> pk, m |-> m, sig |-> sig, ctx |-> ctx, ph |-> ph,
                     param |-> param ],
                   OrValueError(param,
                                hash_ml_dsa_verify(with_param(self, param), pk, m, sig, ctx,
                                                   ph))))
    /\ UNCHANGED <<keys, signed>>

\* a signature whose hint section hint_bit_unpack rejects: its last count is
\* above omega
RejectedHint(sig) == [sig EXCEPT ![Len(sig)] = 255]

\* the signatures a caller can present once it holds one: the one it holds,
\* with its first byte manipulated, with a rejected hint section, one byte
\* short, cut to its first bytes, one byte long
Presented(sig) ==
    { sig, manipulate_first_byte(sig), RejectedHint(sig),
      Slice(sig, 0, Len(sig) - 1), Slice(sig, 0, 4), sig \o <<0>> }

\* the public keys a caller can present: the one it holds, one byte short,
\* one byte long
PresentedKeys(pk) == { pk, Slice(pk, 0, Len(pk) - 1), pk \o <<0>> }

\* the variations of the sign call one, one argument at a time
SignVariations(one) ==
    { [one EXCEPT !.m = x] : x \in Messages }
    \cup { [one EXCEPT !.ctx = c] : c \in Contexts }
    \cup { [one EXCEPT !.rnd_in = r] : r \in Randomness }
    \cup { [one EXCEPT !.param = p] : p \in ParamArgs }

SignArgs ==
    SignVariations([ m |-> <<1>>, ctx |-> <<>>, rnd_in |-> NoneArg, param |-> NoParam ])

HashSignVariations(one) ==
    { [one EXCEPT !.ctx = c] : c \in Contexts }
    \cup { [one EXCEPT !.ph = p] : p \in PreHashes }
    \cup { [one EXCEPT !.rnd_in = r] : r \in Randomness }

HashSignArgs ==
    HashSignVariations([ m |-> <<1>>, ctx |-> <<>>, ph |-> "SHA-256", rnd_in |-> NoneArg,
                         param |-> NoParam ])

\* the variations of the verify call hon, one argument at a time, a
\* rejected hint together with each of the others, and a context that is too
\* long together with the name of a set
VerifyVariations(hon) ==
    { [hon EXCEPT !.sig = s] : s \in Presented(hon.sig) }
    \cup { [hon EXCEPT !.pk = p] : p \in PresentedKeys(hon.pk) }
    \cup { [hon EXCEPT !.m = x] : x \in Messages }
    \cup { [hon EXCEPT !.ctx = c] : c \in Contexts }
    \cup { [hon EXCEPT !.param = p] : p \in ParamArgs }
    \cup { [hon EXCEPT !.sig = RejectedHint(hon.sig), !.pk = p] : p \in PresentedKeys(hon.pk) }
    \cup { [hon EXCEPT !.sig = manipulate_first_byte(RejectedHint(hon.sig))] }
    \cup { [hon EXCEPT !.sig = RejectedHint(hon.sig), !.m = x] : x \in Messages }
    \cup { [hon EXCEPT !.ctx = Fill(7, MaxCtx + 1), !.param = "ml-dsa-87"] }

\* the arguments of the verify calls: none before sign returned a signature
VerifyArgs ==
    IF signed = NoSignature \/ signed.ph # "" THEN {}
    ELSE VerifyVariations([ pk |-> keys.pk, m |-> signed.m, sig |-> signed.sig,
                            ctx |-> signed.ctx, param |-> NoParam ])

HashVerifyVariations(hon) ==
    { [hon EXCEPT !.ctx = c] : c \in Contexts }
    \cup { [hon EXCEPT !.ph = p] : p \in PreHashes }
    \cup { [hon EXCEPT !.sig = manipulate_first_byte(hon.sig)] }
    \cup { [hon EXCEPT !.ph = "MD5", !.param = "ml-dsa-87"] }

\* the arguments of the hash_ml_dsa_verify calls: none before
\* hash_ml_dsa_sign returned a signature
HashVerifyArgs ==
    IF signed = NoSignature \/ signed.ph = "" THEN {}
    ELSE HashVerifyVariations([ pk |-> keys.pk, m |-> signed.m, sig |-> signed.sig,
                                ctx |-> signed.ctx, ph |-> signed.ph, param |-> NoParam ])

Next ==
    \/ \E xi \in Seeds, param \in ParamArgs : KeygenInternal(xi, param)
    \/ \E a \in SignArgs : Sign(a.m, a.ctx, a.rnd_in, a.param)
    \/ \E a \in HashSignArgs : HashSign(a.m, a.ctx, a.ph, a.rnd_in, a.param)
    \/ \E a \in VerifyArgs : Verify(a.pk, a.m, a.sig, a.ctx, a.param)
    \/ \E a \in HashVerifyArgs : HashVerify(a.pk, a.m, a.sig, a.ctx, a.ph, a.param)

Spec == Init /\ [][Next]_vars

-----------------------------------------------------------------------------
(* The same instance under a caller of its codecs: it encodes a value or   *)
(* decodes a byte string, then passes what it got back and forth           *)

\* the number of codec calls a run makes
MaxCodecCalls == 3

\* the shapes of the values and byte strings the caller starts from: every
\* element the least one, every element the greatest, and a mix of both
\* with elements in between
CodecKinds == {"low", "high", "mixed"}

\* element t of a list of the shape kind over lo..hi
Coefficient(kind, lo, hi, t) ==
    CASE kind = "low" -> lo
      [] kind = "high" -> hi
      [] OTHER -> IF t % 3 = 0 THEN hi
                  ELSE IF t % 3 = 1 THEN lo
                  ELSE lo + ((t * 7919) % (hi - lo + 1))

\* cnt polynomials with coefficients in lo..hi
Polys(obj, cnt, kind, lo, hi) ==
    list([ i \in 1..cnt |->
        list([ j \in 1..obj.n |-> Coefficient(kind, lo, hi, (i - 1) * obj.n + j) ]) ])

ByteString(kind, len) == list([ t \in 1..len |-> Coefficient(kind, 0, 255, t) ])

\* hints of weight 0, of weight omega in the first polynomial, and of weight
\* one in the last column but i of polynomial i
HintList(obj, kind) ==
    list([ i \in 1..obj.k |->
        list([ j \in 1..obj.n |->
            CASE kind = "low" -> 0
              [] kind = "high" -> IF i = 1 /\ j <= obj.omega THEN 1 ELSE 0
              [] OTHER -> IF i <= obj.omega /\ j = obj.n - (i - 1) THEN 1 ELSE 0 ]) ])

\* the byte lengths of the encodings of the set obj, with 256 / 8 as
\* obj.n \div 8
PkLen(obj) == 32 + (obj.n \div 8) * (bit_length(obj.q - 1) - obj.d) * obj.k

SkLen(obj) ==
    128 + (obj.n \div 8) * bit_length(2 * obj.eta) * (obj.ell + obj.k)
        + (obj.n \div 8) * obj.d * obj.k

SigLen(obj) ==
    obj.lam \div 4 + (obj.n \div 8) * (1 + bit_length(obj.gam1 - 1)) * obj.ell
        + obj.omega + obj.k

PkValues(obj) ==
    { [ rho |-> ByteString(r, 32),
        t1 |-> Polys(obj, obj.k, c, 0, 2^(bit_length(obj.q - 1) - obj.d) - 1) ] :
      r \in {"low", "mixed"}, c \in CodecKinds }

SkValues(obj) ==
    { [ rho |-> ByteString(c, 32), kk |-> ByteString(c, 32), tr |-> ByteString(c, 64),
        s1 |-> Polys(obj, obj.ell, c, -obj.eta, obj.eta),
        s2 |-> Polys(obj, obj.k, c, -obj.eta, obj.eta),
        t0 |-> Polys(obj, obj.k, c, -(2^(obj.d - 1) - 1), 2^(obj.d - 1)) ] :
      c \in CodecKinds }

SigValues(obj) ==
    { [ ct |-> ByteString(c, obj.lam \div 4),
        z |-> Polys(obj, obj.ell, c, -(obj.gam1 - 1), obj.gam1),
        h |-> HintList(obj, hk) ] :
      c \in CodecKinds, hk \in CodecKinds }

PkBytes(obj) == { ByteString(c, PkLen(obj)) : c \in CodecKinds }

SkBytes(obj) == { ByteString(c, SkLen(obj)) : c \in CodecKinds }

\* byte strings of the length of a signature, and such byte strings that end
\* in a packed hint
SigBytes(obj) ==
    { ByteString(c, SigLen(obj)) : c \in CodecKinds }
    \cup { ByteString(c, SigLen(obj) - obj.omega - obj.k)
           \o hint_bit_pack(obj, HintList(obj, hk)) : c \in CodecKinds, hk \in CodecKinds }

\* the outcome of a call that returns bytes, or raised IndexError
BytesOrRaised(b) == IF b = Raised THEN ResOf("IndexError") ELSE ResBytes(b, 0)

\* ML_DSA(param)
CodecInit ==
    \E param \in ParamNames :
        /\ self = init(param)
        /\ keys = NoKeys
        /\ signed = NoSignature
        /\ last = Call("__init__", param, <<>>, ResOf("None"))
        /\ hist = <<>>
        /\ calls = 0

PkEncode(v) ==
    /\ calls < MaxCodecCalls
    /\ Called(self, Call("pk_encode", self.name, v,
                         BytesOrRaised(pk_encode(self, v.rho, v.t1))))
    /\ UNCHANGED <<keys, signed>>

PkDecode(pk) ==
    /\ calls < MaxCodecCalls
    /\ Called(self, Call("pk_decode", self.name, [ pk |-> pk ], pk_decode(self, pk)))
    /\ UNCHANGED <<keys, signed>>

SkEncode(v) ==
    /\ calls < MaxCodecCalls
    /\ Called(self, Call("sk_encode", self.name, v,
                         BytesOrRaised(sk_encode(self, v.rho, v.kk, v.tr, v.s1, v.s2, v.t0))))
    /\ UNCHANGED <<keys, signed>>

SkDecode(sk) ==
    /\ calls < MaxCodecCalls
    /\ Called(self, Call("sk_decode", self.name, [ sk |-> sk ], sk_decode(self, sk)))
    /\ UNCHANGED <<keys, signed>>

SigEncode(v) ==
    /\ calls < MaxCodecCalls
    /\ Called(self, Call("sig_encode", self.name, v,
                         BytesOrRaised(sig_encode(self, v.ct, v.z, v.h))))
    /\ UNCHANGED <<keys, signed>>

SigDecode(sig) ==
    /\ calls < MaxCodecCalls
    /\ Called(self, Call("sig_decode", self.name, [ sig |-> sig ], sig_decode(self, sig)))
    /\ UNCHANGED <<keys, signed>>

\* the byte strings for the decoder dec: the fresh ones at first, then what
\* the encoder enc just returned
BytesFor(enc, fresh) ==
    IF calls = 0 THEN fresh
    ELSE IF last.op = enc /\ last.res.kind = "bytes" THEN {last.res.val}
    ELSE {}

PkEncodeArgs ==
    IF calls = 0 THEN PkValues(self)
    ELSE IF last.op = "pk_decode" /\ ~last.res.exc
         THEN {[ rho |-> last.res.rho, t1 |-> last.res.t1 ]}
    ELSE {}

SkEncodeArgs ==
    IF calls = 0 THEN SkValues(self)
    ELSE IF last.op = "sk_decode" /\ ~last.res.exc
         THEN {[ rho |-> last.res.rho, kk |-> last.res.kk, tr |-> last.res.tr,
                 s1 |-> last.res.s1, s2 |-> last.res.s2, t0 |-> last.res.t0 ]}
    ELSE {}

\* sig_encode is not called on h = None
SigEncodeArgs ==
    IF calls = 0 THEN SigValues(self)
    ELSE IF last.op = "sig_decode" /\ ~last.res.exc /\ ~last.res.hnone
         THEN {[ ct |-> last.res.ct, z |-> last.res.z, h |-> last.res.h ]}
    ELSE {}

CodecNext ==
    \/ \E v \in PkEncodeArgs : PkEncode(v)
    \/ \E b \in BytesFor("pk_encode", PkBytes(self)) : PkDecode(b)
    \/ \E v \in SkEncodeArgs : SkEncode(v)
    \/ \E b \in BytesFor("sk_encode", SkBytes(self)) : SkDecode(b)
    \/ \E v \in SigEncodeArgs : SigEncode(v)
    \/ \E b \in BytesFor("sig_encode", SigBytes(self)) : SigDecode(b)

CodecSpec == CodecInit /\ [][CodecNext]_vars

-----------------------------------------------------------------------------
(* hint_bit_unpack called on its own, on every string of omega index bytes *)
(* and k offset bytes.  The instance is ML_DSA(param) as in CodecInit.     *)

\* the index bytes: the first two columns and the last one
IndexBytes(obj) == {0, 1, obj.n - 1}

\* the offset bytes: up to one above omega
OffsetBytes(obj) == 0..(obj.omega + 1)

HintStrings(obj) ==
    { a \o b : a \in [ 1..obj.omega -> IndexBytes(obj) ],
               b \in [ 1..obj.k -> OffsetBytes(obj) ] }

HintBitUnpack(y) ==
    /\ calls = 0
    /\ Called(self, Call("hint_bit_unpack", self.name, [ y |-> y ],
                         [ kind |-> IF hint_bit_unpack(self, y).res = "ok" THEN "list"
                                    ELSE hint_bit_unpack(self, y).res,
                           val |-> hint_bit_unpack(self, y).h ]))
    /\ UNCHANGED <<keys, signed>>

\* hint_bit_unpack is called on the fresh instance
HintArgs == IF calls = 0 THEN HintStrings(self) ELSE {}

HintNext == \E y \in HintArgs : HintBitUnpack(y)

HintSpec == CodecInit /\ [][HintNext]_vars

-----------------------------------------------------------------------------
(* The message representative M' the four signing and verifying operations *)
(* hand to sign_internal and verify_internal, computed on its own for two  *)
(* calls of one instance.  The instance is ML_DSA(param) as in CodecInit.  *)

MaxRepCalls == 2

\* contexts of at most 255 bytes, and messages: one pair is the other with
\* a byte moved from the message to the context
RepContexts == {<<>>, <<1>>, <<1, 2>>, Fill(0, MaxCtx)}

RepMessages == {<<>>, <<2>>, <<1, 2>>, Fill(0, MaxCtx + 1)}

\* mp of sign (by = "sign") and of verify (by = "verify")
PureRepresentative(by, ctx, m) ==
    /\ calls < MaxRepCalls
    /\ Len(ctx) <= 255
    /\ Called(self, Call("mp", self.name, [ by |-> by, ctx |-> ctx, m |-> m, ph |-> NoParam ],
                         [ val |-> PureRep(ctx, m) ]))
    /\ UNCHANGED <<keys, signed>>

\* mp of hash_ml_dsa_sign and of hash_ml_dsa_verify
HashRepresentative(by, ctx, m, ph) ==
    /\ calls < MaxRepCalls
    /\ Len(ctx) <= 255
    /\ PreHash(ph, m).ok
    /\ Called(self, Call("mp", self.name, [ by |-> by, ctx |-> ctx, m |-> m, ph |-> ph ],
                         [ val |-> HashRep(ctx, PreHash(ph, m)) ]))
    /\ UNCHANGED <<keys, signed>>

RepNext ==
    \/ \E by \in {"sign", "verify"} : \E ctx \in RepContexts : \E m \in RepMessages :
           PureRepresentative(by, ctx, m)
    \/ \E by \in {"hash_ml_dsa_sign", "hash_ml_dsa_verify"} :
           \E ctx \in {<<>>, <<1>>} : \E m \in {<<>>, <<2>>} : \E ph \in {"SHA-256", "SHAKE128"} :
               HashRepresentative(by, ctx, m, ph)

RepSpec == CodecInit /\ [][RepNext]_vars

-----------------------------------------------------------------------------
(* The seeds expand_a, expand_s and expand_mask derive from their base     *)
(* seed, computed on their own for two polynomials of one instance.  The   *)
(* instance is ML_DSA(param) as in CodecInit.                              *)

MaxSeedCalls == 2

\* the base seeds: rho of 32 bytes, rhop and rhopp of 64 bytes
BaseSeed(le) == Fill(9, le)

\* kappa of the passes of one sign_internal call ("kappa += self.ell"): the
\* first three, and the first two whose kappa + r does not fit two bytes
Kappas(obj) ==
    { obj.ell * t : t \in 0..2 }
    \cup { obj.ell * ((65536 \div obj.ell) + t) : t \in 0..1 }

ExpandARhop(r, s) ==
    /\ calls < MaxSeedCalls
    /\ Called(self, Call("seed", self.name,
                         [ of |-> "expand_a", r |-> r, s |-> s, kappa |-> 0 ],
                         [ val |-> expand_a_rhop(BaseSeed(32), r, s) ]))
    /\ UNCHANGED <<keys, signed>>

ExpandS1Seed(r) ==
    /\ calls < MaxSeedCalls
    /\ Called(self, Call("seed", self.name,
                         [ of |-> "expand_s", r |-> r, s |-> 1, kappa |-> 0 ],
                         [ val |-> expand_s1_seed(BaseSeed(64), r) ]))
    /\ UNCHANGED <<keys, signed>>

ExpandS2Seed(r) ==
    /\ calls < MaxSeedCalls
    /\ Called(self, Call("seed", self.name,
                         [ of |-> "expand_s", r |-> r, s |-> 2, kappa |-> 0 ],
                         [ val |-> expand_s2_seed(self, BaseSeed(64), r) ]))
    /\ UNCHANGED <<keys, signed>>

ExpandMaskRhop(kappa, r) ==
    /\ calls < MaxSeedCalls
    /\ Called(self, Call("seed", self.name,
                         [ of |-> "expand_mask", r |-> r, s |-> 0, kappa |-> kappa ],
                         [ val |-> expand_mask_rhop(BaseSeed(64), kappa, r) ]))
    /\ UNCHANGED <<keys, signed>>

SeedNext ==
    \/ \E r \in 0..(self.k - 1) : \E s \in 0..(self.ell - 1) : ExpandARhop(r, s)
    \/ \E r \in 0..(self.ell - 1) : ExpandS1Seed(r)
    \/ \E r \in 0..(self.k - 1) : ExpandS2Seed(r)
    \/ \E kappa \in Kappas(self) : \E r \in 0..(self.ell - 1) : ExpandMaskRhop(kappa, r)

SeedSpec == CodecInit /\ [][SeedNext]_vars

-----------------------------------------------------------------------------
(* The samplers, one read of their stream at a time.  The bytes of the     *)
(* stream are chosen by the environment, so the samplers are looked at on  *)
(* every stream and not only on those of the hash.  The position is kept   *)
(* in last: the sampler that runs (op), the operation it runs for          *)
(* (args.by, "" when it is called on its own), the samplers that operation *)
(* calls after it (args.todo) and, in res, the variables of the loop: the  *)
(* list a or c (val), the index i of sample_in_ball, its sign bits         *)
(* (hbits), what was read last (read), the number of reads modulo 2        *)
(* (reads) and whether a read was rejected (rejected).  The instance is    *)
(* ML_DSA(param) as in CodecInit.                                          *)

Samplers == {"rej_ntt_poly", "rej_bounded_poly", "sample_in_ball"}

\* the samplers keygen_internal calls through expand_a and expand_s, and
\* verify_internal through expand_a and by sample_in_ball, in their order
SamplersOf(obj, by) ==
    IF by = "keygen_internal"
    THEN Fill("rej_ntt_poly", obj.k * obj.ell) \o Fill("rej_bounded_poly", obj.ell + obj.k)
    ELSE Fill("rej_ntt_poly", obj.k * obj.ell) \o <<"sample_in_ball">>

\* sampler op before the first pass of its loop
Entered(op, by, todo, rejected) ==
    Call(op, self.name, [ by |-> by, todo |-> todo ],
         [ kind |-> "while",
           val |-> IF op = "sample_in_ball" THEN Fill(0, self.n) ELSE <<>>,
           i |-> IF op = "sample_in_ball" THEN self.n - self.tau ELSE 0,
           hbits |-> <<>>, read |-> <<>>, reads |-> 0, rejected |-> rejected ])

\* the operation by has returned
Returned(by, rejected) ==
    Call(by, self.name, [ by |-> by, todo |-> <<>> ],
         [ kind |-> "return", val |-> <<>>, i |-> 0,
           hbits |-> <<>>, read |-> <<>>, reads |-> 0, rejected |-> rejected ])

Stepped(c) ==
    /\ last' = c
    /\ UNCHANGED <<self, keys, signed, hist, calls>>

\* the 3-byte chunks of the stream of rej_ntt_poly: 1, q - 1 with the top
\* bit of the third byte set, q, and 2^23 - 1 with that bit set
NttChunks(by) ==
    IF by = "" THEN {<<1, 0, 0>>, <<0, 224, 255>>, <<1, 224, 127>>, <<255, 255, 255>>}
    ELSE {<<1, 0, 0>>, <<1, 224, 127>>}

\* the bytes of the stream of rej_bounded_poly: 0x20 (nibbles 0 and 2), 0xf4
\* (nibbles 4 and 15) and 0xff
BoundedBytes(by) == IF by = "" THEN {32, 244, 255} ELSE {32, 255}

\* the first 8 bytes of the stream of sample_in_ball
SignBytes(by) == IF by = "" THEN {Fill(0, 8), <<5>> \o Fill(0, 7)} ELSE {Fill(0, 8)}

\* the bytes of the stream of sample_in_ball after them
BallBytes(obj, by) ==
    IF by = "" THEN {0, obj.n - 5, obj.n - 3, obj.n - 1, 255} ELSE {0, 255}

\* a sampler is called on its own
SamplerEnter(op) ==
    /\ last.op = "__init__"
    /\ Stepped(Entered(op, "", <<>>, FALSE))

\* keygen_internal or verify_internal is called and reaches its first sampler
OperationEnter(by) ==
    /\ last.op = "__init__"
    /\ Stepped(Entered(Head(SamplersOf(self, by)), by, Tail(SamplersOf(self, by)), FALSE))

\* "if h is None: return False" of verify_internal
VerifyInternalNoHint ==
    /\ last.op = "__init__"
    /\ Stepped(Returned("verify_internal", FALSE))

CoeffFromHalfByte(b) ==
    /\ last.op = "__init__"
    /\ Stepped(Call("coeff_from_half_byte", self.name, [ by |-> "", todo |-> <<>>, b |-> b ],
                    [ kind |-> IF coeff_from_half_byte(self, b) = NoCoeff THEN "None" ELSE "int",
                      val |-> coeff_from_half_byte(self, b) ]))

InLoop(op) == last.op = op /\ last.res.kind = "while"

\* one pass of "while j < 256" of rej_ntt_poly, s = g.read(3)
RejNttRead(s) ==
    /\ InLoop("rej_ntt_poly")
    /\ Len(last.res.val) < self.n
    /\ Stepped([last EXCEPT !.res.val = Accept(@, CoeffFromRead(self, s)),
                            !.res.read = s,
                            !.res.reads = 1 - @,
                            !.res.rejected = @ \/ CoeffFromRead(self, s) = NoCoeff])

\* one pass of "while j < 256" of rej_bounded_poly, z = h.read(1)[0]
RejBoundedRead(z) ==
    /\ InLoop("rej_bounded_poly")
    /\ Len(last.res.val) < self.n
    /\ Stepped([last EXCEPT !.res.val = TwoCoeffs(self, @, z),
                            !.res.read = <<z>>,
                            !.res.reads = 1 - @,
                            !.res.rejected = @ \/ TwoCoeffs(self, last.res.val, z) = last.res.val])

\* "s = xof.read(8); h = self.bytes_to_bits(s)" of sample_in_ball
SampleInBallSigns(s) ==
    /\ InLoop("sample_in_ball")
    /\ last.res.hbits = <<>>
    /\ Stepped([last EXCEPT !.res.hbits = bytes_to_bits(s)])

\* "j = xof.read(1)[0]" of sample_in_ball: j > i is read again, j <= i ends
\* the pass for i
SampleInBallRead(j) ==
    /\ InLoop("sample_in_ball")
    /\ last.res.hbits # <<>>
    /\ last.res.i < self.n
    /\ Stepped(IF j > last.res.i
               THEN [last EXCEPT !.res.read = <<j>>, !.res.reads = 1 - @, !.res.rejected = TRUE]
               ELSE [last EXCEPT !.res.val = SampleSwap(@, last.res.i, j,
                                                        last.res.hbits[last.res.i + self.tau - self.n + 1]),
                                 !.res.i = @ + 1,
                                 !.res.read = <<j>>,
                                 !.res.reads = 1 - @])

\* the loop of the sampler that runs has ended
LoopEnded ==
    /\ last.op \in Samplers
    /\ last.res.kind = "while"
    /\ IF last.op = "sample_in_ball" THEN last.res.i = self.n ELSE Len(last.res.val) >= self.n

\* "return a", "return c" of a sampler called on its own
SamplerReturn ==
    /\ LoopEnded
    /\ last.args.by = ""
    /\ Stepped([last EXCEPT !.res.kind = "list"])

\* the sampler returns to expand_a, expand_s or the operation, which calls
\* the next one
NextSampler ==
    /\ LoopEnded
    /\ last.args.by # ""
    /\ last.args.todo # <<>>
    /\ Stepped(Entered(Head(last.args.todo), last.args.by, Tail(last.args.todo),
                       last.res.rejected))

\* the last sampler returns and the operation runs to its return
OperationReturn ==
    /\ LoopEnded
    /\ last.args.by # ""
    /\ last.args.todo = <<>>
    /\ Stepped(Returned(last.args.by, last.res.rejected))

RejNttArgs == IF InLoop("rej_ntt_poly") THEN NttChunks(last.args.by) ELSE {}

RejBoundedArgs == IF InLoop("rej_bounded_poly") THEN BoundedBytes(last.args.by) ELSE {}

SignArgsOfBall == IF InLoop("sample_in_ball") THEN SignBytes(last.args.by) ELSE {}

BallArgs == IF InLoop("sample_in_ball") THEN BallBytes(self, last.args.by) ELSE {}

StreamNext ==
    \/ \E op \in Samplers : SamplerEnter(op)
    \/ \E by \in {"keygen_internal", "verify_internal"} : OperationEnter(by)
    \/ VerifyInternalNoHint
    \/ \E b \in 0..15 : CoeffFromHalfByte(b)
    \/ \E s \in RejNttArgs : RejNttRead(s)
    \/ \E z \in RejBoundedArgs : RejBoundedRead(z)
    \/ \E s \in SignArgsOfBall : SampleInBallSigns(s)
    \/ \E j \in BallArgs : SampleInBallRead(j)
    \/ SamplerReturn
    \/ NextSampler
    \/ OperationReturn

\* a read the sampler accepts: a chunk below q, a byte with a nibble that
\* gives a coefficient, an index j <= i
AcceptedRead ==
    \/ \E s \in RejNttArgs : CoeffFromRead(self, s) # NoCoeff /\ RejNttRead(s)
    \/ \E z \in RejBoundedArgs : TwoCoeffs(self, last.res.val, z) # last.res.val /\ RejBoundedRead(z)
    \/ \E j \in BallArgs : j <= last.res.i /\ SampleInBallRead(j)

\* the interpreter runs the program on: the stream is any
StreamSpec == CodecInit /\ [][StreamNext]_vars /\ WF_vars(StreamNext)

\* and every stream yields a sample the sampler accepts again and again
FairStreamSpec == CodecInit /\ [][StreamNext]_vars /\ WF_vars(StreamNext) /\ SF_vars(AcceptedRead)

-----------------------------------------------------------------------------
(* The arithmetic of the scheme, called on its own: the transform and its  *)
(* inverse, the decomposition and the hints.  The instance is              *)
(* ML_DSA(param) as in CodecInit.                                          *)

MaxArithCalls == 3

\* the polynomials the transform starts from: coefficients in [0, q), on
\* both sides of it, far from it, and the powers of X
NttPolys(obj) ==
    { Polys(obj, 1, c, b[1], b[2])[1] :
        c \in CodecKinds,
        b \in {<<0, obj.q - 1>>, <<-obj.q, 2 * obj.q - 1>>, <<-(2^29), 2^29>>} }
    \cup { list([ j \in 1..obj.n |-> IF j = t THEN 1 ELSE 0 ]) : t \in 1..obj.n }

\* the multiples of gam2 the integers are taken around: the first ones, the
\* ones in the middle and the last ones below q - 1 = 2 * gam2 * m, and the
\* ones on both sides of [0, q)
GammaSteps(obj) ==
    {-1, 0, 1, 2, 3}
    \cup { (obj.q - 1) \div (2 * obj.gam2) + t : t \in {-1, 0, 1} }
    \cup { (obj.q - 1) \div obj.gam2 + t : t \in {-2, -1, 0, 1} }

\* the integers decompose is called on
Integers3(obj) == { t * obj.gam2 + o : t \in GammaSteps(obj), o \in -3..3 }

\* the polynomials r: consecutive integers of [0, q) around a multiple of
\* gam2
HintPolys(obj) ==
    { list([ j \in 1..obj.n |-> (t * obj.gam2 + j - obj.n \div 2) % obj.q ]) :
        t \in GammaSteps(obj) }

\* the polynomials z: one coefficient throughout, of absolute value up to
\* gam2 and one beyond, as it is or reduced modulo q
HintShifts(obj) ==
    { Fill(s * (obj.gam2 - o), obj.n) : s \in {-1, 1}, o \in {-1, 0, 1, obj.gam2 - 1} }
    \cup { Fill((-(obj.gam2 - o)) % obj.q, obj.n) : o \in {0, obj.gam2} }

Ntt(w) ==
    /\ calls < MaxArithCalls
    /\ Called(self, Call("ntt", self.name, [ w |-> w ], [ val |-> ntt(self, w) ]))
    /\ UNCHANGED <<keys, signed>>

NttInverse(w) ==
    /\ calls < MaxArithCalls
    /\ Called(self, Call("ntt_inverse", self.name, [ w |-> w ],
                         [ val |-> ntt_inverse(self, w) ]))
    /\ UNCHANGED <<keys, signed>>

Decompose(r) ==
    /\ calls < MaxArithCalls
    /\ Called(self, Call("decompose", self.name, [ r |-> r ],
                         [ r1 |-> decompose(self, r)[1], r0 |-> decompose(self, r)[2] ]))
    /\ UNCHANGED <<keys, signed>>

MakeHint(z, r) ==
    /\ calls < MaxArithCalls
    /\ Called(self, Call("make_hint", self.name, [ z |-> z, r |-> r ],
                         [ val |-> make_hint(self, <<z>>, <<r>>)[1] ]))
    /\ UNCHANGED <<keys, signed>>

UseHint(hh, r) ==
    /\ calls < MaxArithCalls
    /\ Called(self, Call("use_hint", self.name, [ h |-> hh, r |-> r ],
                         [ val |-> use_hint(self, <<hh>>, <<r>>)[1] ]))
    /\ UNCHANGED <<keys, signed>>

\* the moduli modpm is called with: the small ones of both parities, and the
\* moduli of the parameter set (q, 2 * gam2 and 2^d)
Moduli(obj) == (1..6) \cup {obj.q, 2 * obj.gam2, 2 ^ obj.d}

\* the integers around the multiples of half a modulus
AroundHalves(alpha) ==
    { t * (alpha \div 2) + o : t \in -3..3, o \in -1..1 } \cup { alpha, -alpha }

Modpm(m, alpha) ==
    /\ calls = 0
    /\ Called(self, Call("modpm", self.name, [ m |-> m, alpha |-> alpha ],
                         [ val |-> modpm(m, alpha) ]))
    /\ UNCHANGED <<keys, signed>>

BitRev8(m) ==
    /\ calls = 0
    /\ Called(self, Call("bitrev8", self.name, [ m |-> m ], [ val |-> bitrev8(m) ]))
    /\ UNCHANGED <<keys, signed>>

\* the transform is called on the fresh polynomials and on what its inverse
\* returned, the inverse on what the transform returned
NttArgs ==
    IF calls = 0 THEN NttPolys(self)
    ELSE IF last.op = "ntt_inverse" THEN {last.res.val}
    ELSE {}

NttInverseArgs == IF calls > 0 /\ last.op = "ntt" THEN {last.res.val} ELSE {}

\* decompose is called on the fresh integers and on r1 * 2 * gam2 + r0 of
\* what it returned
DecomposeArgs ==
    IF calls = 0 THEN Integers3(self)
    ELSE IF last.op = "decompose" THEN {last.res.r1 * 2 * self.gam2 + last.res.r0}
    ELSE {}

\* make_hint is called on (z, r) and on (z, r - z)
MakeHintArgs ==
    IF calls = 0
    THEN { <<z, r>> : z \in HintShifts(self), r \in HintPolys(self) }
         \cup { <<z, sub(self, r, z)>> : z \in HintShifts(self), r \in HintPolys(self) }
    ELSE {}

\* use_hint is called on the hint make_hint returned for (z, r), with r and
\* with r - z
UseHintArgs ==
    IF calls > 0 /\ last.op = "make_hint"
    THEN {last.args.r, sub(self, last.args.r, last.args.z)}
    ELSE {}

ArithNext ==
    \/ \E w \in NttArgs : Ntt(w)
    \/ \E w \in NttInverseArgs : NttInverse(w)
    \/ \E r \in DecomposeArgs : Decompose(r)
    \/ \E a \in MakeHintArgs : MakeHint(a[1], a[2])
    \/ \E r \in UseHintArgs : UseHint(last.res.val, r)
    \/ \E alpha \in Moduli(self) : \E m \in AroundHalves(alpha) : Modpm(m, alpha)
    \/ \E m \in 0..(ML_DSA_N - 1) : BitRev8(m)

ArithSpec == CodecInit /\ [][ArithNext]_vars

-----------------------------------------------------------------------------
(* sign_internal pass by pass: the instance is ML_DSA(param) as in          *)
(* CodecInit, the key pair is generated once, and sign_internal is         *)
(* followed from its entry through the passes of its while loop to its     *)
(* return.                                                                 *)

MaxPasses == 4

\* the representatives M' signed: <<1>> and <<7>>, and representatives whose
\* first candidate one of the sets rejects, for the norm of z (<<4>>, <<13>>,
\* <<95>>; <<14, 13>> twice), for the norm of r0 (<<218>>, <<26, 29>>,
\* <<4, 21>>) and for the weight of the hint (<<9, 22>>)
Representatives ==
    {<<1>>, <<7>>, <<4>>, <<13>>, <<95>>, <<218>>, <<26, 29>>, <<4, 21>>, <<9, 22>>, <<14, 13>>}

\* "(z, h) = (None, None)" before the first pass
NoCandidate == Rejected("", <<>>, <<>>, <<>>, <<>>, <<>>)

\* where sign_internal stands: at the test of its while loop after the pass
\* that left the candidate it, or returned with sig
Position(kind, kappa, it, sig) == [ kind |-> kind, kappa |-> kappa, pass |-> it, val |-> sig ]

LoopKeygen(xi) == calls = 0 /\ KeygenInternal(xi, NoParam)

\* sign_internal up to "kappa = 0; (z, h) = (None, None)"
SignInternalEnter(mp, rnd) ==
    /\ last.op = "keygen_internal"
    /\ Called(self, Call("sign_internal", self.name,
                         [ sk |-> keys.sk, mp |-> mp, rnd |-> rnd ],
                         Position("while", 0, NoCandidate, <<>>)))
    /\ UNCHANGED <<keys, signed>>

\* one pass of "while (z, h) == (None, None)", with "kappa += self.ell"
SignInternalPass ==
    /\ last.op = "sign_internal"
    /\ last.res.kind = "while"
    /\ ~last.res.pass.accept
    /\ last.res.kappa < MaxPasses * self.ell
    /\ Called(self, Call("sign_internal", self.name, last.args,
                         Position("while", last.res.kappa + self.ell,
                                  SignIteration(self,
                                                SignSetup(self, sk_decode(self, last.args.sk),
                                                          last.args.mp, last.args.rnd),
                                                last.res.kappa),
                                  <<>>)))
    /\ UNCHANGED <<keys, signed>>

\* the loop is left: z is centered, the signature encoded and returned
SignInternalReturn ==
    /\ last.op = "sign_internal"
    /\ last.res.kind = "while"
    /\ last.res.pass.accept
    /\ Called(self, Call("sign_internal", self.name, last.args,
                         Position("bytes", last.res.kappa, last.res.pass,
                                  sig_encode(self, last.res.pass.ct,
                                             CenteredVec(self, last.res.pass.z),
                                             last.res.pass.h))))
    /\ UNCHANGED <<keys, signed>>

LoopNext ==
    \/ \E xi \in Seeds : LoopKeygen(xi)
    \/ \E mp \in Representatives : SignInternalEnter(mp, Fill(0, 32))
    \/ SignInternalPass
    \/ SignInternalReturn

LoopSpec == CodecInit /\ [][LoopNext]_vars

-----------------------------------------------------------------------------
(* Properties of the signature scheme                                      *)

\* the last call is verify, within the context limit, on the public key the
\* caller holds, the signature sign returned for the secret key of that
\* pair under the set the pair was generated under, and the message and
\* context that were signed
SignedUnderOwnSet ==
    /\ last.op = "verify"
    /\ signed # NoSignature
    /\ signed.ph = ""
    /\ signed.pk = keys.pk
    /\ signed.set = keys.set
    /\ last.args.pk = keys.pk
    /\ last.args.sig = signed.sig
    /\ last.args.m = signed.m
    /\ last.args.ctx = signed.ctx

HonestVerify == SignedUnderOwnSet /\ last.set = keys.set

\* C1 (round trip): for every parameter set, seed, message, context of at
\* most 255 bytes and rnd, verify returns True on (pk, m, sig, ctx) when
\* (pk, sk) = keygen_internal(seed) and sig = sign(sk, m, ctx, rnd).
C1_RoundTrip == HonestVerify => last.res.kind = "True"

\* a signature over the longest context, made with rnd given, that took a
\* rejected iteration, was verified
C1_Witness ==
    /\ HonestVerify
    /\ last.res.kind = "True"
    /\ signed.kappa > self.ell

\* the last call is verify on the signature the caller holds with its first
\* byte manipulated, and verify accepts the signature itself for the same
\* public key, message and context
TamperedVerify ==
    /\ last.op = "verify"
    /\ signed # NoSignature
    /\ Len(last.args.ctx) <= MaxCtx
    /\ last.args.sig = manipulate_first_byte(signed.sig)
    /\ verify(self, last.args.pk, last.args.m, signed.sig, last.args.ctx).kind = "True"

\* C2 (tamper rejection): when verify accepts sig for (pk, m, ctx), verify
\* returns False on manipulate_first_byte(sig), which has the length of sig
\* and differs from it in byte 0 only: byte 0 is 0, or 1 where it was 0.
C2_TamperRejected ==
    TamperedVerify =>
        /\ last.res.kind = "False"
        /\ Len(last.args.sig) = Len(signed.sig)
        /\ \A i \in 2..Len(signed.sig) : last.args.sig[i] = signed.sig[i]
        /\ last.args.sig[1] = IF signed.sig[1] = 0 THEN 1 ELSE 0

C2_Witness ==
    /\ TamperedVerify
    /\ last.res.kind = "False"
    /\ last.args.sig # signed.sig
    /\ last.set = "ml-dsa-87"

\* calls a and b are the same operation under the same parameter set on
\* equal arguments (param apart, which the set stands for)
SameCall(a, b) ==
    /\ a.op = b.op
    /\ a.set = b.set
    /\ \A f \in DOMAIN a.args \ {"param"} : a.args[f] = b.args[f]

\* what a newly constructed instance of the set of call c returns for it
Afresh(c) ==
    IF c.set \notin ParamNames THEN ResOf("ValueError")
    ELSE IF c.op = "keygen_internal"
    THEN ResKeys(keygen_internal(init(c.set), c.args.xi))
    ELSE sign(init(c.set), c.args.sk, c.args.m, c.args.ctx, c.args.rnd_in)

SupportedPreHashes == {"SHA-256", "SHA-512", "SHAKE128"}

\* the last call is sign or hash_ml_dsa_sign with the secret key of the set
\* in effect and, for hash_ml_dsa_sign, a pre-hash it knows
SignOnOwnKey ==
    /\ last.op \in {"sign", "hash_ml_dsa_sign"}
    /\ keys.set = last.set
    /\ last.op = "hash_ml_dsa_sign" => last.args.ph \in SupportedPreHashes

\* C4 (context-length boundary on signing): under each parameter set sign
\* and hash_ml_dsa_sign return a signature for a context of 255 bytes or
\* fewer, and None, with no signature bytes, for one of 256 bytes or more.
C4_ContextBoundarySign ==
    SignOnOwnKey =>
        IF Len(last.args.ctx) <= MaxCtx
        THEN last.res.kind = "bytes" /\ Len(last.res.val) = SigLen(self)
        ELSE last.res.kind = "None" /\ last.res.val = <<>>

\* sign returned a signature for a context of 255 bytes, and then
\* hash_ml_dsa_sign returned None for one of 256
C4_Witness ==
    /\ Len(hist) = 3
    /\ SignOnOwnKey
    /\ hist[2].op = "sign"
    /\ Len(hist[2].args.ctx) = MaxCtx
    /\ hist[2].res.kind = "bytes"
    /\ hist[3].op = "hash_ml_dsa_sign"
    /\ Len(hist[3].args.ctx) = MaxCtx + 1
    /\ hist[3].res.kind = "None"

\* C5 (context-length violation on verification): verify and
\* hash_ml_dsa_verify on a context of more than 255 bytes return a failure
\* value, the same for both; they do not raise and do not return True.
C5_ContextViolationReturned ==
    last.op \in {"verify", "hash_ml_dsa_verify"} /\ Len(last.args.ctx) > MaxCtx
        => /\ last.res.kind \in {"None", "False"}
           /\ \A i \in 1..Len(hist) :
                  hist[i].op \in {"verify", "hash_ml_dsa_verify"}
                  /\ Len(hist[i].args.ctx) > MaxCtx
                      => hist[i].res.kind = last.res.kind

\* C6 (hint decode failure): for every signature of the right length whose
\* hint section hint_bit_unpack rejects, verify returns False and does not
\* raise, whatever the public key, message, challenge seed and z bytes.
C6_HintFailureShortCircuits ==
    /\ last.op = "verify"
    /\ Len(last.args.ctx) <= MaxCtx
    /\ Len(last.args.sig) = SigLen(self)
    /\ sig_decode(self, last.args.sig).hnone
    => last.res.kind = "False"

\* C7 (wrong-length encodings): for every signature or public key whose
\* length is not the one of the parameter set in effect, shorter or with
\* bytes appended, verify returns False: it neither raises nor accepts.
C7_WrongLengthRejected ==
    /\ last.op = "verify"
    /\ Len(last.args.ctx) <= MaxCtx
    /\ Len(last.args.sig) # SigLen(self) \/ Len(last.args.pk) # PkLen(self)
    => last.res.kind = "False"

\* C8 (cross-parameter isolation): a signature made by sign under P with a
\* key pair of P is not accepted by verify under another set P', with the
\* same public key, message and context: verify returns False.
C8_CrossParameterIsolation ==
    SignedUnderOwnSet /\ last.set # keys.set => last.res.kind = "False"

\* (pk, sk, sig) lengths of FIPS 204
FixedSizes ==
    [ param \in ParamNames |->
        CASE param = "ml-dsa-44" -> <<1312, 2560, 2420>>
          [] param = "ml-dsa-65" -> <<1952, 4032, 3309>>
          [] param = "ml-dsa-87" -> <<2592, 4896, 4627>> ]

\* C9 (fixed sizes): the lengths of the outputs of keygen_internal and of
\* signing depend on the parameter set only: len(pk) = 32 + 320 k,
\* len(sk) = 128 + 32 bitlen(2 eta) (ell + k) + 32 d k and
\* len(sig) = lam / 4 + 32 (1 + bitlen(gam1 - 1)) ell + omega + k, with
\* 32 = n / 8, which for n = 256 are the sizes of FIPS 204; a signature is
\* never shorter.
C9_FixedSizes ==
    /\ \A param \in ParamNames :
           <<PkLen(FullSet(param)), SkLen(FullSet(param)), SigLen(FullSet(param))>>
               = FixedSizes[param]
    /\ last.op = "keygen_internal" /\ last.res.kind = "keys" =>
           Len(last.res.val) = PkLen(self) /\ Len(last.res.val2) = SkLen(self)
    /\ last.op \in {"sign", "hash_ml_dsa_sign"} /\ last.res.kind = "bytes" =>
           Len(last.res.val) = SigLen(self)

\* a signature that took a rejected iteration has the fixed length
C9_Witness ==
    /\ last.op = "sign"
    /\ last.res.kind = "bytes"
    /\ last.res.kappa > self.ell
    /\ Len(last.res.val) = SigLen(self)
    /\ Len(keys.pk) = PkLen(self)
    /\ Len(keys.sk) = SkLen(self)

\* every coefficient of the polynomials of v is in lo..hi
InRange(v, lo, hi) ==
    \A i \in 1..Len(v) : \A j \in 1..Len(v[i]) : v[i][j] >= lo /\ v[i][j] <= hi

\* call b decodes the bytes call a returned
DecodesResultOf(a, b, enc, dec, arg) ==
    a.op = enc /\ a.res.kind = "bytes" /\ b.op = dec /\ b.args[arg] = a.res.val

\* call b encodes the value call a returned for bytes of length len
EncodesResultOf(a, b, dec, enc, arg, len) ==
    /\ a.op = dec
    /\ Len(a.args[arg]) = len
    /\ ~a.res.exc
    /\ b.op = enc
    /\ \A f \in DOMAIN b.args : b.args[f] = a.res[f]

PkRoundTrip(obj, a, b) ==
    /\ DecodesResultOf(a, b, "pk_encode", "pk_decode", "pk")
       /\ InRange(a.args.t1, 0, 1023)
       => ~b.res.exc /\ b.res.rho = a.args.rho /\ b.res.t1 = a.args.t1
    /\ EncodesResultOf(a, b, "pk_decode", "pk_encode", "pk", PkLen(obj))
       => b.res.kind = "bytes" /\ b.res.val = a.args.pk

SkRoundTrip(obj, a, b) ==
    /\ DecodesResultOf(a, b, "sk_encode", "sk_decode", "sk")
       /\ InRange(a.args.s1, -obj.eta, obj.eta)
       /\ InRange(a.args.s2, -obj.eta, obj.eta)
       /\ InRange(a.args.t0, -(2^(obj.d - 1) - 1), 2^(obj.d - 1))
       => /\ ~b.res.exc
          /\ \A f \in DOMAIN a.args : b.res[f] = a.args[f]
    /\ EncodesResultOf(a, b, "sk_decode", "sk_encode", "sk", SkLen(obj))
       => b.res.kind = "bytes" /\ b.res.val = a.args.sk

SigRoundTrip(obj, a, b) ==
    /\ DecodesResultOf(a, b, "sig_encode", "sig_decode", "sig")
       /\ InRange(a.args.z, -(obj.gam1 - 1), obj.gam1)
       /\ InRange(a.args.h, 0, 1)
       /\ weight(a.args.h) <= obj.omega
       => /\ ~b.res.exc
          /\ ~b.res.hnone
          /\ \A f \in DOMAIN a.args : b.res[f] = a.args[f]
    /\ EncodesResultOf(a, b, "sig_decode", "sig_encode", "sig", SigLen(obj)) /\ ~a.res.hnone
       => b.res.kind = "bytes" /\ b.res.val = a.args.sig

\* C10 (codec idempotence): (1) decoding what pk_encode, sk_encode and
\* sig_encode return gives back their arguments, for coefficients in the
\* ranges of the encodings and hints of weight at most omega; (2) encoding
\* what pk_decode, sk_decode and sig_decode return for bytes of the right
\* length, the hint not None, gives back the bytes.
C10_CodecIdempotence ==
    \A i \in 1..(Len(hist) - 1) :
        /\ PkRoundTrip(self, hist[i], hist[i + 1])
        /\ SkRoundTrip(self, hist[i], hist[i + 1])
        /\ SigRoundTrip(self, hist[i], hist[i + 1])

\* a signature with a hint of weight omega and coefficients of z at both
\* ends of their range was encoded, decoded and encoded again
C10_Witness ==
    /\ Len(hist) = 3
    /\ hist[1].op = "sig_encode"
    /\ weight(hist[1].args.h) = self.omega
    /\ \E i \in 1..self.ell : \E j \in 1..self.n : hist[1].args.z[i][j] = self.gam1
    /\ \E i \in 1..self.ell : \E j \in 1..self.n : hist[1].args.z[i][j] = -(self.gam1 - 1)
    /\ DecodesResultOf(hist[1], hist[2], "sig_encode", "sig_decode", "sig")
    /\ hist[2].res.z = hist[1].args.z
    /\ hist[2].res.h = hist[1].args.h
    /\ EncodesResultOf(hist[2], hist[3], "sig_decode", "sig_encode", "sig", SigLen(self))
    /\ hist[3].res.val = hist[1].res.val


-----------------------------------------------------------------------------
(* Properties of the arithmetic                                            *)

\* [self.modpm(x, q) for x in w]
Centered(obj, w) == list([ j \in 1..Len(w) |-> modpm(w[j], obj.q) ])

\* call b is ntt_inverse on what the call a of ntt returned
InvertsResultOf(a, b) ==
    /\ a.op = "ntt"
    /\ b.op = "ntt_inverse"
    /\ b.args.w = a.res.val

\* C11 (transform round trip): ntt_inverse(ntt(w)) equals w coefficient by
\* coefficient modulo q, both sides compared through modpm(., q), for every
\* list w of n integers.
C11_NttRoundTrip ==
    \A i \in 1..(Len(hist) - 1) :
        InvertsResultOf(hist[i], hist[i + 1])
        => Centered(self, hist[i + 1].res.val) = Centered(self, hist[i].args.w)

\* the transform and its inverse were applied to a polynomial with
\* coefficients below 0 and above q that are not all the same, and the
\* transform changed it
C11_Witness ==
    /\ Len(hist) = 2
    /\ InvertsResultOf(hist[1], hist[2])
    /\ \E j \in 1..self.n : hist[1].args.w[j] < 0
    /\ \E j \in 1..self.n : hist[1].args.w[j] >= self.q
    /\ \E j \in 1..self.n : hist[1].args.w[j] # hist[1].args.w[1]
    /\ Centered(self, hist[1].res.val) # Centered(self, hist[1].args.w)


\* call b is use_hint on the hint the call a of make_hint returned
UsesHintOf(a, b) ==
    /\ a.op = "make_hint"
    /\ b.op = "use_hint"
    /\ b.args.h = a.res.val

\* |modpm(x, q)| <= gam2 for every coefficient x of z
SmallShift(obj, z) == \A j \in 1..Len(z) : Abs(modpm(z[j], obj.q)) <= obj.gam2

\* HighBits of the polynomial r
HighBitsOf(obj, r) == high_bits(obj, <<r>>)[1]

\* C12 as the specification states it: for z with |z| <= gam2,
\* use_hint(make_hint(z, r), r - z) equals high_bits(r).
C12_HintSoundnessAsStated ==
    \A i \in 1..(Len(hist) - 1) :
        /\ UsesHintOf(hist[i], hist[i + 1])
        /\ SmallShift(self, hist[i].args.z)
        /\ hist[i + 1].args.r = sub(self, hist[i].args.r, hist[i].args.z)
        => hist[i + 1].res.val = HighBitsOf(self, hist[i].args.r)

\* C12 (hint soundness), amended: for z with |z| <= gam2,
\* use_hint(make_hint(z, r - z), r - z) equals high_bits(r): the hint is
\* made for the same r - z it is later used with.
C12_HintSoundness ==
    \A i \in 1..(Len(hist) - 1) :
        \A r \in HintPolys(self) :
            /\ UsesHintOf(hist[i], hist[i + 1])
            /\ SmallShift(self, hist[i].args.z)
            /\ hist[i].args.r = sub(self, r, hist[i].args.z)
            /\ hist[i + 1].args.r = hist[i].args.r
            => hist[i + 1].res.val = HighBitsOf(self, r)

\* a hint with a coefficient set was made for (z, r - z), z of absolute
\* value gam2, and used with r - z, whose high bits are not those of r
C12_Witness ==
    /\ Len(hist) = 2
    /\ UsesHintOf(hist[1], hist[2])
    /\ SmallShift(self, hist[1].args.z)
    /\ Abs(modpm(hist[1].args.z[1], self.q)) = self.gam2
    /\ hist[2].args.r = hist[1].args.r
    /\ \E r \in HintPolys(self) :
        /\ hist[1].args.r = sub(self, r, hist[1].args.z)
        /\ HighBitsOf(self, r) # HighBitsOf(self, hist[1].args.r)
        /\ hist[2].res.val = HighBitsOf(self, r)
    /\ \E j \in 1..self.n : hist[1].res.val[j] = 1


\* r mod q lies at most gam2 below q - 1, where decompose returns r1 = 0
WrapsAround(obj, r) == (r % obj.q) - modpm(r % obj.q, 2 * obj.gam2) = obj.q - 1

\* what is stated of decompose(r) = (r1, r0)
DecomposeSound(obj, r, r1, r0) ==
    /\ (r1 * 2 * obj.gam2 + r0 - r) % obj.q = 0
    /\ 0 <= r1
    /\ r1 < (obj.q - 1) \div (2 * obj.gam2)
    /\ -obj.gam2 <= r0
    /\ r0 <= obj.gam2
    /\ IF WrapsAround(obj, r)
       THEN r1 = 0 /\ r0 = modpm(r % obj.q, 2 * obj.gam2) - 1
       ELSE r0 > -obj.gam2

\* C19 (decompose): decompose(r) = (r1, r0) has r1 * 2 * gam2 + r0 = r modulo
\* q, 0 <= r1 < (q - 1) / (2 * gam2) and -gam2 <= r0 <= gam2; where
\* (r mod q) - modpm(r mod q, 2 * gam2) = q - 1 it returns r1 = 0 and r0 one
\* less, and elsewhere r0 lies in (-gam2, gam2].
C19_Decompose ==
    \A i \in 1..Len(hist) :
        hist[i].op = "decompose"
        => DecomposeSound(self, hist[i].args.r, hist[i].res.r1, hist[i].res.r0)

\* decompose was called on an r outside [0, q) that wraps around, and
\* returned r0 = -gam2
C19_Witness ==
    /\ last.op = "decompose"
    /\ last.args.r < 0
    /\ WrapsAround(self, last.args.r)
    /\ last.res.r1 = 0
    /\ last.res.r0 = -self.gam2

\* every coefficient of v lies in lo..hi
Within(v, lo, hi) == \A j \in 1..Len(v) : lo <= v[j] /\ v[j] <= hi

\* C20 (use_hint): for every r in [0, q) and z with |modpm(z, q)| <= gam2,
\* use_hint(make_hint(z, r), r) equals high_bits(r + z), and every value
\* use_hint returns lies in [0, (q - 1) / (2 * gam2) - 1].
C20_UseHintRecovers ==
    \A i \in 1..(Len(hist) - 1) :
        UsesHintOf(hist[i], hist[i + 1])
        => /\ Within(hist[i + 1].res.val, 0, (self.q - 1) \div (2 * self.gam2) - 1)
           /\ /\ Within(hist[i].args.r, 0, self.q - 1)
              /\ SmallShift(self, hist[i].args.z)
              /\ hist[i + 1].args.r = hist[i].args.r
              => hist[i + 1].res.val
                 = HighBitsOf(self, add(self, hist[i].args.r, hist[i].args.z))

\* use_hint was called with the r the hint was made for, on a coefficient
\* with the greatest high bits and the hint set, and returned 0 for it
C20_Witness ==
    /\ Len(hist) = 2
    /\ UsesHintOf(hist[1], hist[2])
    /\ SmallShift(self, hist[1].args.z)
    /\ hist[2].args.r = hist[1].args.r
    /\ \E j \in 1..self.n :
        /\ hist[1].res.val[j] = 1
        /\ decompose(self, hist[1].args.r[j])[1] = (self.q - 1) \div (2 * self.gam2) - 1
        /\ hist[2].res.val[j] = 0


\* the call c is op with a selector ph that is none of the three, within the
\* context limit
UnsupportedPreHash(c, op) ==
    /\ c.op = op
    /\ c.args.ph \notin SupportedPreHashes
    /\ Len(c.args.ctx) <= MaxCtx

\* C13 (unsupported pre-hash selector): with ph not exactly one of 'SHA-256',
\* 'SHA-512', 'SHAKE128' and len(ctx) <= 255, hash_ml_dsa_sign returns None
\* and hash_ml_dsa_verify returns False: no signature is produced or accepted
\* and no other hash function stands in.
C13_UnsupportedPreHashFails ==
    \A i \in 1..Len(hist) :
        /\ UnsupportedPreHash(hist[i], "hash_ml_dsa_sign") => hist[i].res = ResOf("None")
        /\ UnsupportedPreHash(hist[i], "hash_ml_dsa_verify") => hist[i].res = ResOf("False")

\* hash_ml_dsa_verify was called with an unsupported selector on the key,
\* message, context and signature of a hash_ml_dsa_sign call under a
\* supported one
C13_Witness ==
    /\ UnsupportedPreHash(last, "hash_ml_dsa_verify")
    /\ signed # NoSignature
    /\ signed.ph \in SupportedPreHashes
    /\ signed.set = self.name
    /\ last.args.sig = signed.sig
    /\ last.args.pk = signed.pk
    /\ last.args.m = signed.m
    /\ last.args.ctx = signed.ctx
    /\ last.res.kind = "False"


\* C14 (unknown parameter-set name): a call with a param whose lower-cased
\* form is not one of ml-dsa-44, ml-dsa-65, ml-dsa-87 raises ValueError
\* before a field is assigned: the instance keeps the fields it had, which
\* are those of one single row of ML_DSA_PARAM.
C14_UnknownNameRaises ==
    [][Unsupported(last'.args.param)
       => /\ last'.res = ResOf("ValueError")
          /\ self' = self
          /\ \E p \in ParamNames : self' = init(p)]_vars

\* a call named a set that ML_DSA_PARAM does not have, on an instance that an
\* earlier call had switched from the set it was constructed with to
\* another, given in capitals
C14_Witness ==
    /\ Len(hist) >= 2
    /\ Unsupported(last.args.param)
    /\ last.res.kind = "ValueError"
    /\ hist[Len(hist) - 1].args.param # hist[Len(hist) - 1].set
    /\ hist[Len(hist) - 1].set = "ml-dsa-44"
    /\ self = init("ml-dsa-44")


\* C15 (parameter-set immutability): the set of the instance is fixed at
\* construction: no call changes a field of it, and a call without param
\* runs under the set the instance was constructed with.
C15_ParameterSetImmutable ==
    /\ self = init("ml-dsa-65")
    /\ \A i \in 1..Len(hist) : hist[i].args.param = NoParam => hist[i].set = "ml-dsa-65"


\* calls a and b are the same signing operation under the same set on the
\* same sk, m, ctx (and ph), a with rnd_in omitted and b with rnd_in = rnd
DefaultedAgainst(a, b, rnd) ==
    /\ a.op \in {"sign", "hash_ml_dsa_sign"}
    /\ SameCall([a EXCEPT !.args.rnd_in = rnd], [b EXCEPT !.args.rnd_in = rnd])
    /\ a.args.rnd_in = NoneArg
    /\ b.args.rnd_in \in {NoneArg, rnd}

FourConditions(obj, it) ==
    /\ inf_norm(obj, it.z) < obj.gam1 - obj.beta
    /\ inf_norm(obj, it.r0) < obj.gam2 - obj.beta
    /\ inf_norm(obj, it.ct0) < obj.gam2
    /\ weight(it.h) <= obj.omega

\* the passes of sign_internal in hist: those after its entry
Passes == { p \in 3..Len(hist) : hist[p].res.kind = "while" }

RoundsTo(obj, t1, t0, t) ==
    \A i \in 1..obj.k : \A j \in 1..obj.n :
        /\ (t1[i][j] * 2^obj.d + t0[i][j] - t[i][j]) % obj.q = 0
        /\ -(2^(obj.d - 1)) < t0[i][j]
        /\ t0[i][j] <= 2^(obj.d - 1)
        /\ 0 <= t1[i][j]
        /\ t1[i][j] <= 1023

\* the decoded keys dpk and dsk are a pair: t = A s1 + s2 with A =
\* expand_a(rho) rounds to (t1, t0)
KeyPairRounds(obj, dpk, dsk) ==
    /\ ~dpk.exc
    /\ ~dsk.exc
    /\ dpk.rho = dsk.rho
    /\ RoundsTo(obj, dpk.t1, dsk.t0,
                AddVec(obj,
                       NttInverseVec(obj,
                           matrix_vector_ntt(obj, expand_a(obj, dsk.rho), NttVec(obj, dsk.s1))),
                       dsk.s2))

\* C18 (key-pair rounding invariant): for every seed, t1 decoded from the pk
\* and s1, s2, t0 decoded from the sk that keygen_internal returns satisfy
\* t1 * 2^d + t0 = A s1 + s2 modulo q with A = expand_a(rho), every t0
\* coefficient in (-2^(d - 1), 2^(d - 1)] and every t1 coefficient in
\* [0, 1023].
C18_KeyPairRounding ==
    last.op = "keygen_internal" /\ last.res.kind = "keys"
    => KeyPairRounds(self, pk_decode(self, last.res.val), sk_decode(self, last.res.val2))

\* keygen_internal returned a key pair under ml-dsa-87 whose t0 has a
\* coefficient at the upper end 2^(d - 1) or below 0, and whose t1 is not 0
C18_Witness ==
    /\ last.op = "keygen_internal"
    /\ last.res.kind = "keys"
    /\ self.name = "ml-dsa-87"
    /\ \E i \in 1..self.k : \E j \in 1..self.n :
           sk_decode(self, last.res.val2).t0[i][j] < 0
    /\ \E i \in 1..self.k : \E j \in 1..self.n :
           pk_decode(self, last.res.val).t1[i][j] > 0

-----------------------------------------------------------------------------
(* C22: the centred reduction *)

Ceil2(alpha) == (alpha + 1) \div 2

\* C22: modpm(m, alpha) is congruent to m modulo alpha and lies in
\* (-ceil(alpha/2), floor(alpha/2)]; for an even alpha the value +alpha/2 is
\* returned for m congruent to alpha/2 and -alpha/2 is never returned.
C22_Modpm ==
    last.op = "modpm" =>
        /\ (last.res.val - last.args.m) % last.args.alpha = 0
        /\ -Ceil2(last.args.alpha) < last.res.val
        /\ last.res.val <= last.args.alpha \div 2
        /\ last.args.alpha % 2 = 0 =>
            /\ last.res.val # -(last.args.alpha \div 2)
            /\ (last.args.m - last.args.alpha \div 2) % last.args.alpha = 0
                   => last.res.val = last.args.alpha \div 2

\* a negative m congruent to alpha/2 modulo the even modulus 2 * gam2 came
\* back as +gam2
C22_Witness ==
    /\ last.op = "modpm"
    /\ last.args.alpha = 2 * self.gam2
    /\ last.args.m = -3 * self.gam2
    /\ last.res.val = self.gam2

-----------------------------------------------------------------------------
(* C28: the table of the powers of the root of unity *)

-----------------------------------------------------------------------------
(* C21: the validity checks of hint_bit_unpack *)

\* y[omega + i] of the source, and the offset of the row before row i (0
\* before row 0)
OffsetOf(obj, y, i) == y[obj.omega + i + 1]

PreviousOffset(obj, y, i) == IF i = 0 THEN 0 ELSE OffsetOf(obj, y, i - 1)

\* a row's offset is below the previous row's or above omega
BadOffset(obj, y) ==
    \E i \in 0..(obj.k - 1) :
        \/ OffsetOf(obj, y, i) < PreviousOffset(obj, y, i)
        \/ OffsetOf(obj, y, i) > obj.omega

\* two consecutive indices y[t - 1], y[t] inside row i do not increase
NotIncreasing(obj, y) ==
    \E i \in 0..(obj.k - 1) :
        \E t \in (PreviousOffset(obj, y, i) + 1)..(OffsetOf(obj, y, i) - 1) :
            t < obj.omega /\ y[t] >= y[t + 1]

\* an index byte at or after the last offset is not 0
BadPadding(obj, y) ==
    \E t \in OffsetOf(obj, y, obj.k - 1)..(obj.omega - 1) : y[t + 1] # 0

\* C21: hint_bit_unpack(y) returns None whenever a row's offset y[omega + i]
\* is below the previous row's or above omega, whenever two consecutive
\* indices inside a row do not strictly increase, or whenever an index byte
\* after the last used position is nonzero; whenever it returns h, h has k
\* rows of n entries in {0, 1} and its weight is y[omega + k - 1] <= omega.
C21_HintUnpackValidity ==
    last.op = "hint_bit_unpack" =>
        /\ BadOffset(self, last.args.y) => last.res.kind = "None"
        /\ NotIncreasing(self, last.args.y) => last.res.kind = "None"
        /\ BadPadding(self, last.args.y) => last.res.kind = "None"
        /\ last.res.kind = "list" =>
            /\ Len(last.res.val) = self.k
            /\ \A i \in 1..self.k :
                /\ Len(last.res.val[i]) = self.n
                /\ \A j \in 1..self.n : last.res.val[i][j] \in {0, 1}
            /\ weight(last.res.val) = OffsetOf(self, last.args.y, self.k - 1)
            /\ weight(last.res.val) <= self.omega

\* a hint of weight omega with ones in two rows came back
C21_Witness ==
    /\ last.op = "hint_bit_unpack"
    /\ last.res.kind = "list"
    /\ weight(last.res.val) = self.omega
    /\ weight(<<last.res.val[1]>>) > 0
    /\ weight(<<last.res.val[self.k]>>) > 0

\* a string with a nonzero byte after the last index, and nothing else wrong
\* with it, was turned down
C21_WitnessPadding ==
    /\ last.op = "hint_bit_unpack"
    /\ BadPadding(self, last.args.y)
    /\ ~BadOffset(self, last.args.y)
    /\ ~NotIncreasing(self, last.args.y)
    /\ last.res.kind = "None"

-----------------------------------------------------------------------------
(* C29: the message representative *)

Pure(c) == c.op = "mp" /\ c.args.by \in {"sign", "verify"}

PreHashed(c) == c.op = "mp" /\ c.args.by \in {"hash_ml_dsa_sign", "hash_ml_dsa_verify"}

\* C29: sign and verify build the same representative byte(0) +
\* byte(len(ctx)) + ctx + m; for len(ctx) <= 255 it determines (ctx, m); it
\* is never equal to a representative of hash_ml_dsa_sign or
\* hash_ml_dsa_verify, which starts with byte(1).
C29_Representative ==
    \A i \in 1..Len(hist) : \A j \in 1..Len(hist) :
        /\ Pure(hist[i]) =>
            hist[i].res.val = <<0, Len(hist[i].args.ctx)>> \o hist[i].args.ctx \o hist[i].args.m
        /\ Pure(hist[i]) /\ Pure(hist[j]) =>
            /\ hist[i].args.ctx = hist[j].args.ctx /\ hist[i].args.m = hist[j].args.m
                   => hist[i].res.val = hist[j].res.val
            /\ hist[i].res.val = hist[j].res.val
                   => hist[i].args.ctx = hist[j].args.ctx /\ hist[i].args.m = hist[j].args.m
        /\ PreHashed(hist[j]) => SubSeq(hist[j].res.val, 1, 1) = <<1>>
        /\ Pure(hist[i]) /\ PreHashed(hist[j]) => hist[i].res.val # hist[j].res.val

\* sign built the representative of (<<1>>, <<2>>) and verify that of
\* (<<1, 2>>, <<>>): the same bytes after the length byte, and two
\* representatives
C29_Witness ==
    /\ Len(hist) = 2
    /\ Pure(hist[1]) /\ hist[1].args.by = "sign"
    /\ Pure(hist[2]) /\ hist[2].args.by = "verify"
    /\ hist[1].args.ctx \o hist[1].args.m = hist[2].args.ctx \o hist[2].args.m
    /\ hist[1].args.ctx # hist[2].args.ctx
    /\ hist[1].res.val # hist[2].res.val

-----------------------------------------------------------------------------
(* C30: a call that fails the validation of its input *)

\* call c is one of the four signing and verifying operations with a context
\* of more than 255 bytes or, for the pre-hash operations, a selector that is
\* not supported
FailsValidation(c) ==
    /\ c.op \in {"sign", "verify", "hash_ml_dsa_sign", "hash_ml_dsa_verify"}
    /\ \/ Len(c.args.ctx) > MaxCtx
       \/ c.op \in {"hash_ml_dsa_sign", "hash_ml_dsa_verify"} /\ c.args.ph \notin SupportedPreHashes

\* C30: a call to sign, verify, hash_ml_dsa_sign or hash_ml_dsa_verify that
\* fails the validation of its input (a context longer than 255 bytes or a
\* pre-hash that is not supported) leaves the instance as it was, its
\* parameter set included, also when a param argument was passed.
C30_FailedCallLeavesInstance ==
    [][FailsValidation(last') => self' = self]_vars

-----------------------------------------------------------------------------
(* C27: the seeds derived from one base seed *)

\* the two bytes of x, low byte first
TwoBytes(x) == <<x % 256, (x \div 256) % 256>>

\* the seed of call c is laid out as the claim says
SeedLayout(obj, c) ==
    /\ c.args.of = "expand_a" => c.res.val = BaseSeed(32) \o <<c.args.s, c.args.r>>
    /\ c.args.of = "expand_s" /\ c.args.s = 1 => c.res.val = BaseSeed(64) \o TwoBytes(c.args.r)
    /\ c.args.of = "expand_s" /\ c.args.s = 2 =>
           c.res.val = BaseSeed(64) \o TwoBytes(c.args.r + obj.ell)
    /\ c.args.of = "expand_mask" =>
           c.res.val = BaseSeed(64) \o TwoBytes(c.args.kappa + c.args.r)

\* calls a and b derive the seeds of two polynomials from the same base seed
TwoPolynomials(a, b) ==
    /\ a.op = "seed" /\ b.op = "seed"
    /\ a.args.of = b.args.of
    /\ a.args # b.args

\* kappa + r of call c fits the two bytes it is written to
FitsTwoBytes(c) == c.args.kappa + c.args.r < 65536

\* C27 as the specification states it: the seeds are laid out as stated and
\* no two polynomials sampled from the same base seed share a derived seed,
\* over all iterations and rows of a sign_internal call included.
C27_SeedsAsStated ==
    \A i \in 1..Len(hist) : \A j \in 1..Len(hist) :
        /\ hist[i].op = "seed" => SeedLayout(self, hist[i])
        /\ TwoPolynomials(hist[i], hist[j]) => hist[i].res.val # hist[j].res.val

\* C27: the seeds are laid out as stated (rho + byte(s) + byte(r) in
\* expand_a, the 2-byte little-endian r and r + ell in expand_s, the 2-byte
\* little-endian kappa + r in expand_mask), and no two polynomials sampled
\* from the same base seed share a derived seed, over the iterations and
\* rows of a sign_internal call with kappa + r < 65536 included.
C27_Seeds ==
    \A i \in 1..Len(hist) : \A j \in 1..Len(hist) :
        /\ hist[i].op = "seed" => SeedLayout(self, hist[i])
        /\ TwoPolynomials(hist[i], hist[j]) /\ FitsTwoBytes(hist[i]) /\ FitsTwoBytes(hist[j])
               => hist[i].res.val # hist[j].res.val

\* the seeds of the last row of one pass and of the first row of the next
\* pass of the loop were derived, and they differ
C27_Witness ==
    /\ Len(hist) = 2
    /\ hist[1].args.of = "expand_mask" /\ hist[2].args.of = "expand_mask"
    /\ hist[1].args.kappa = 0 /\ hist[1].args.r = self.ell - 1
    /\ hist[2].args.kappa = self.ell /\ hist[2].args.r = 0
    /\ hist[1].res.val # hist[2].res.val

-----------------------------------------------------------------------------
(* C23: sample_in_ball *)

\* the positions (from 0) of the coefficients of c that are not 0
NonZero(c) == { t \in 0..(Len(c) - 1) : c[t + 1] # 0 }

\* sample_in_ball between two reads, with the passes up to i - 1 done
BallInvariant ==
    last.op = "sample_in_ball" =>
        /\ Len(last.res.val) = self.n
        /\ \A t \in NonZero(last.res.val) : last.res.val[t + 1] \in {1, -1} /\ t < last.res.i
        /\ Cardinality(NonZero(last.res.val)) = last.res.i - (self.n - self.tau)
        /\ last.res.kind = "list" => Cardinality(NonZero(last.res.val)) = self.tau

\* a read of an index byte by sample_in_ball: a byte above i changes neither
\* c nor i, a byte j <= i is where the new coefficient goes
BallRead ==
    InLoop("sample_in_ball") /\ last.res.hbits # <<>> /\ last'.res.kind = "while" =>
        IF last'.res.read[1] > last.res.i
        THEN last'.res.val = last.res.val /\ last'.res.i = last.res.i
        ELSE /\ last'.res.i = last.res.i + 1
             /\ last'.res.val[last'.res.read[1] + 1] # 0
             /\ NonZero(last'.res.val) \in
                    { NonZero(last.res.val) \cup {last'.res.read[1]},
                      NonZero(last.res.val) \cup {last.res.i} }
             /\ Cardinality(NonZero(last'.res.val)) = Cardinality(NonZero(last.res.val)) + 1

\* C23: on every stream on which it returns, sample_in_ball returns n
\* coefficients of which exactly tau are not 0, each of them 1 or -1; after
\* the pass for index i (from n - tau to n - 1) exactly i - (n - tau) + 1
\* coefficients are not 0, all at positions <= i; an index byte j > i is
\* never used.
C23_SampleInBall == []BallInvariant /\ [][BallRead]_vars

\* sample_in_ball returned a polynomial with both signs after it read an
\* index byte above i
C23_Witness ==
    /\ last.op = "sample_in_ball"
    /\ last.res.kind = "list"
    /\ last.res.rejected
    /\ \E t \in NonZero(last.res.val) : last.res.val[t + 1] = -1
    /\ \E t \in NonZero(last.res.val) : last.res.val[t + 1] = 1
    /\ Cardinality(NonZero(last.res.val)) = self.tau

-----------------------------------------------------------------------------
(* C26: coeff_from_half_byte and rej_bounded_poly *)

\* the nibbles the claim says are accepted, and what it says they give
NibbleAccepted(eta, b) == (eta = 2 /\ b < 15) \/ (eta = 4 /\ b < 9)

NibbleCoeff(eta, b) == IF eta = 2 THEN 2 - (b % 5) ELSE 4 - b

\* the coefficients byte z gives: of the low nibble, then of the high one
ByteCoeffs(eta, z) ==
    (IF NibbleAccepted(eta, z % 16) THEN <<NibbleCoeff(eta, z % 16)>> ELSE <<>>)
    \o (IF NibbleAccepted(eta, z \div 16) THEN <<NibbleCoeff(eta, z \div 16)>> ELSE <<>>)

\* coeff_from_half_byte returned what the claim says, and the list of
\* rej_bounded_poly has at most n coefficients, all in [-eta, eta], and n
\* when it is returned
BoundedInvariant ==
    /\ last.op = "coeff_from_half_byte" =>
        IF NibbleAccepted(self.eta, last.args.b)
        THEN last.res.kind = "int" /\ last.res.val = NibbleCoeff(self.eta, last.args.b)
        ELSE last.res.kind = "None"
    /\ last.op = "rej_bounded_poly" =>
        /\ Len(last.res.val) <= self.n
        /\ \A t \in 1..Len(last.res.val) : last.res.val[t] \in (-self.eta)..self.eta
        /\ last.res.kind = "list" => Len(last.res.val) = self.n

\* a read of rej_bounded_poly appends the coefficients of the byte, low
\* nibble first, as far as there is room
BoundedRead ==
    InLoop("rej_bounded_poly") /\ InLoop("rej_bounded_poly")' /\ last'.res.read # <<>> =>
        last'.res.val = Slice(last.res.val \o ByteCoeffs(self.eta, last'.res.read[1]), 0, self.n)

\* C26: coeff_from_half_byte(b) for b in 0..15 returns 2 - (b mod 5) when
\* eta = 2 and b < 15, 4 - b when eta = 4 and b < 9, and rejects otherwise;
\* rej_bounded_poly, when it returns, gives exactly n coefficients, all in
\* [-eta, eta] (a coefficient 0 is kept), takes the low nibble of each byte
\* before the high nibble and never writes at index n or beyond.
C26_BoundedSampling == []BoundedInvariant /\ [][BoundedRead]_vars

\* rej_bounded_poly returned after a byte with two nibbles it accepts filled
\* the last place with its low nibble; a coefficient 0 is in the list and a
\* nibble was rejected
C26_Witness ==
    /\ last.op = "rej_bounded_poly"
    /\ last.res.kind = "list"
    /\ last.res.read = <<32>>
    /\ last.res.val[self.n] = self.eta
    /\ \E t \in 1..self.n : last.res.val[t] = 0
    /\ last.res.rejected

-----------------------------------------------------------------------------
(* C24: rej_ntt_poly on a stream that misbehaves *)

RejNttReturned == last.op = "rej_ntt_poly" /\ last.res.kind = "list"

\* the value of the chunk s with the top bit of its third byte masked
ChunkValue(s) == (s[3] % 128) * 65536 + s[2] * 256 + s[1]

\* the list rej_ntt_poly returns has n coefficients in [0, q)
RejNttInvariant ==
    RejNttReturned =>
        /\ Len(last.res.val) = self.n
        /\ \A t \in 1..self.n : last.res.val[t] \in 0..(self.q - 1)

\* a read of rej_ntt_poly appends the value of the chunk if it is below q
RejNttOrder ==
    InLoop("rej_ntt_poly") /\ InLoop("rej_ntt_poly")' /\ last'.res.read # <<>> =>
        last'.res.val =
            last.res.val \o (IF ChunkValue(last'.res.read) < self.q
                             THEN <<ChunkValue(last'.res.read)>> ELSE <<>>)

\* rej_ntt_poly, called on its own, returns
RejNttTerminates == (InLoop("rej_ntt_poly") /\ last.args.by = "") ~> RejNttReturned

\* C24: rej_ntt_poly is guarded against a stream that misbehaves: it
\* terminates on every byte stream, one in which no 3-byte chunk decodes to a
\* value below q included; when it returns, all n coefficients are in [0, q)
\* and are the values of the accepted chunks in the order of the stream.
C24_RejNttPolyGuarded == RejNttTerminates /\ []RejNttInvariant /\ [][RejNttOrder]_vars

\* the part of C24 that is not about termination
C24_RejNttPolySound == []RejNttInvariant /\ [][RejNttOrder]_vars

-----------------------------------------------------------------------------
(* C25: keygen_internal and verify_internal return *)

\* a sampler runs for keygen_internal or verify_internal
OperationRuns == last.op \in Samplers /\ last.args.by # ""

OperationReturned ==
    last.op \in {"keygen_internal", "verify_internal"} /\ last.res.kind = "return"

\* an operation goes on to its next sampler or to its return: it calls no
\* sampler again that has returned
NoRetry ==
    OperationRuns =>
        /\ last'.args.by = last.args.by
        /\ \/ last'.args.todo = last.args.todo /\ last'.op = last.op
           \/ last.args.todo # <<>> /\ last'.args.todo = Tail(last.args.todo)
           \/ last.args.todo = <<>> /\ OperationReturned'

\* C25: if every stream yields a sample that is accepted again and again,
\* keygen_internal and verify_internal reach their return: their loops are
\* the loops of a fixed count and the rejection loops of rej_ntt_poly,
\* rej_bounded_poly and sample_in_ball, and they never start over.
C25_OperationsReturn == (OperationRuns ~> OperationReturned) /\ [][NoRetry]_vars

\* keygen_internal returned after a sampler rejected a read
C25_Witness ==
    /\ last.op = "keygen_internal"
    /\ last.res.kind = "return"
    /\ last.res.rejected

====
